---- MODULE Spec2Model ----
(***************************************************************************)
(* Model of appwrite-types-gen: the attribute type converter, the enum,    *)
(* interface and identifier-constant generators, and the generation        *)
(* pipeline (TypesGenerator.generate, generateTypes, CLI.run).             *)
(*                                                                         *)
(* JavaScript strings are TLA+ strings; a character is a string of length  *)
(* one.  A JavaScript object is a record whose DOMAIN holds exactly the     *)
(* properties that are present, so an absent (undefined) property is a     *)
(* name outside the DOMAIN.  A call either returns a value or throws:      *)
(* Ok(v) or Throw(class, message).                                         *)
(***************************************************************************)
EXTENDS Integers, Sequences, FiniteSets, TLC

VARIABLES
    args,   \* the arguments of the call under way (a record, one field per parameter)
    ret,    \* Pending before the call, then [fn, result]
    \* a run of generateTypes or CLI.run:
    pc,                      \* the position of the run
    env,                     \* the file system and the clock the run meets
    cliConfig,               \* CLI.run's local config
    generator,               \* the TypesGenerator's this.config
    schema,                  \* generate()'s local inputConfig
    processableCollections,  \* generate()'s local processableCollections
    generated,               \* generate()'s local generatedTypes
    thrown,                  \* the stage that threw inside generate() and what it threw
    outcome,                 \* what generate() returned or threw
    trace,                   \* the calls made to generators and transformers, in order
    writes                   \* the calls made to FileSystemUtils.writeFile, in order

pipelineVars == <<pc, env, cliConfig, generator, schema, processableCollections, generated,
                  thrown, outcome, trace, writes>>

vars == <<args, ret, pipelineVars>>

-----------------------------------------------------------------------------
(* Optional values, objects, call results                                  *)

None == <<>>
Some(v) == <<v>>

\* The object holding exactly the properties whose option is not None.
Obj(opts) == [k \in {f \in DOMAIN opts : opts[f] # None} |-> opts[k][1]]

Has(o, f) == f \in DOMAIN o

Ok(v) == [ok |-> TRUE, value |-> v]
Throw(class, message) == [ok |-> FALSE, error |-> [class |-> class, message |-> message]]

\* what follows a call that may throw: the error, or Ok of F applied to the value
mapResult(result, F(_)) == IF result.ok THEN Ok(F(result.value)) ELSE result

\* array.map(callback) with a callback that may throw: the first error in
\* array order, or Ok of the sequence of the values
collect(results) ==
    IF \E i \in 1..Len(results) : ~results[i].ok
    THEN results[CHOOSE i \in 1..Len(results) :
                     ~results[i].ok /\ \A k \in 1..(i - 1) : results[k].ok]
    ELSE Ok([i \in 1..Len(results) |-> results[i].value])

Pending == [fn |-> "none"]

\* no run is under way: the locals of a run are undefined
NoRun ==
    /\ pc = "none" /\ env = None /\ cliConfig = None /\ generator = None /\ schema = None
    /\ processableCollections = None /\ generated = None /\ thrown = None /\ outcome = None
    /\ trace = <<>> /\ writes = <<>>

Returned(fn, result) == [fn |-> fn, result |-> result]

-----------------------------------------------------------------------------
(* String primitives of the JavaScript runtime                             *)

LowerLetters == "abcdefghijklmnopqrstuvwxyz"
UpperLetters == "ABCDEFGHIJKLMNOPQRSTUVWXYZ"
Digits == "0123456789"

\* String.prototype.charAt: the empty string outside the string.
charAt(s, i) == IF i >= 1 /\ i <= Len(s) THEN SubSeq(s, i, i) ELSE ""

\* String.prototype.slice(i) with a 1-based index.
sliceFrom(s, i) == IF i > Len(s) THEN "" ELSE SubSeq(s, i, Len(s))

InStr(c, alphabet) == \E i \in 1..Len(alphabet) : SubSeq(alphabet, i, i) = c
IndexIn(c, alphabet) == CHOOSE i \in 1..Len(alphabet) : SubSeq(alphabet, i, i) = c

IsLower(c) == InStr(c, LowerLetters)
IsUpper(c) == InStr(c, UpperLetters)
IsDigit(c) == InStr(c, Digits)
IsAlnum(c) == IsLower(c) \/ IsUpper(c) \/ IsDigit(c)
\* \s of a regular expression, and what trim() removes
IsSpace(c) == c \in {" ", "\t", "\n", "\r"}

upperChar(c) == IF IsLower(c) THEN charAt(UpperLetters, IndexIn(c, LowerLetters)) ELSE c
lowerChar(c) == IF IsUpper(c) THEN charAt(LowerLetters, IndexIn(c, UpperLetters)) ELSE c

RECURSIVE toUpperCase(_)
toUpperCase(s) ==
    IF s = "" THEN "" ELSE upperChar(charAt(s, 1)) \o toUpperCase(sliceFrom(s, 2))

RECURSIVE toLowerCase(_)
toLowerCase(s) ==
    IF s = "" THEN "" ELSE lowerChar(charAt(s, 1)) \o toLowerCase(sliceFrom(s, 2))

\* Array.prototype.join
RECURSIVE join(_, _)
join(parts, sep) ==
    IF Len(parts) = 0 THEN ""
    ELSE IF Len(parts) = 1 THEN parts[1]
    ELSE parts[1] \o sep \o join(Tail(parts), sep)

\* s.split(/[-_]/): the segments between the separators, empty ones included.
RECURSIVE splitDashUnderscore(_)
splitDashUnderscore(s) ==
    IF \A i \in 1..Len(s) : charAt(s, i) \notin {"-", "_"} THEN <<s>>
    ELSE LET i == CHOOSE j \in 1..Len(s) : charAt(s, j) \in {"-", "_"}
                                           /\ \A k \in 1..(j - 1) : charAt(s, k) \notin {"-", "_"}
         IN  <<SubSeq(s, 1, i - 1)>> \o splitDashUnderscore(sliceFrom(s, i + 1))

\* word => word.charAt(0).toUpperCase() + word.slice(1)
capitalize(word) == toUpperCase(charAt(word, 1)) \o sliceFrom(word, 2)

\* s.replace(/s$/, '')
stripTrailingS(s) ==
    IF Len(s) > 0 /\ charAt(s, Len(s)) = "s" THEN SubSeq(s, 1, Len(s) - 1) ELSE s

\* elements.map(e => `"${e}"`).join(' | ')
quotedUnion(elements) == join([i \in 1..Len(elements) |-> "\"" \o elements[i] \o "\""], " | ")

\* s contains sub as a contiguous substring
Contains(s, sub) ==
    \E i \in 1..(Len(s) - Len(sub) + 1) : SubSeq(s, i, i + Len(sub) - 1) = sub

-----------------------------------------------------------------------------
(* TypeConverter (type-converters.ts)                                      *)

PRIMITIVE_TYPE_MAP ==
    [string |-> "string", integer |-> "number", float |-> "number",
     boolean |-> "boolean", datetime |-> "string"]

\* attribute.elements?.length as a number (0 when elements is absent)
elementsLength(attribute) ==
    IF Has(attribute, "elements") THEN Len(attribute.elements) ELSE 0

isArrayAttr(attribute) == Has(attribute, "array") /\ attribute.array
isEnumFormat(attribute) == Has(attribute, "format") /\ attribute.format = "enum"

validateAttribute(attribute) ==
    IF ~Has(attribute, "key") \/ attribute.key = ""
    THEN Throw("Error", "Attribute must have a valid string key")
    ELSE IF ~Has(attribute, "type") \/ attribute.type = ""
    THEN Throw("Error", "Attribute must have a valid string type")
    ELSE Ok("")

handleEnumType(attribute) ==
    LET enumValues == quotedUnion(IF Has(attribute, "elements") THEN attribute.elements ELSE <<>>)
    IN  IF isArrayAttr(attribute) THEN "(" \o enumValues \o ")[]" ELSE enumValues

\* an array handler that ignores the element list
handleArrayType_generic(attribute, baseType) == "Array<" \o baseType \o ">"

handleArrayType(attribute, baseType) ==
    IF Has(attribute, "elements") /\ Len(attribute.elements) > 0
    THEN "(" \o quotedUnion(attribute.elements) \o ")[]"
    ELSE "Array<" \o baseType \o ">"

\* context.collectionName ?? 'unknown'
orUnknown(context, field) == IF Has(context, field) THEN context[field] ELSE "unknown"

\* a converter that falls back to a catch-all type instead of failing
handleUnsupportedType_fallback(attribute, context) == Ok("any")

handleUnsupportedType(attribute, context) ==
    LET errorContext ==
            IF context # None
            THEN "in " \o orUnknown(context[1], "collectionName")
                 \o " collection, attribute " \o orUnknown(context[1], "attributeName")
            ELSE ""
    IN  Throw("Error", "Unsupported attribute type: " \o attribute.type \o " " \o errorContext)

\* relatedCollection.split(/[-_]/).map(capitalize).join('').replace(/s$/, '')
relatedTypeName(relatedCollection) ==
    LET words == splitDashUnderscore(relatedCollection)
    IN  stripTrailingS(join([i \in 1..Len(words) |-> capitalize(words[i])], ""))

sideIsParent(relationAttr) == Has(relationAttr, "side") /\ relationAttr.side = "parent"

\* a converter with the two sides of manyToOne exchanged
relationshipShape_swapped(name, relationType, isParent) ==
    CASE relationType = "oneToMany" ->
            IF isParent THEN name \o "[]" ELSE name \o " | null"
      [] relationType = "manyToOne" ->
            IF isParent THEN name \o "[]" ELSE name \o " | null"
      [] relationType \in {"oneToOne", "manyToMany"} -> name \o "[]"
      [] OTHER -> "string | RelationshipReference"

\* switch (relationAttr.relationType), name being relatedTypeName
relationshipShape(name, relationType, isParent) ==
    CASE relationType = "oneToMany" ->
            IF isParent THEN name \o "[]" ELSE name \o " | null"
      [] relationType = "manyToOne" ->
            IF isParent THEN name \o " | null" ELSE name \o "[]"
      [] relationType \in {"oneToOne", "manyToMany"} -> name \o "[]"
      [] OTHER -> "string | RelationshipReference"

relationshipType(relationAttr) ==
    relationshipShape(relatedTypeName(relationAttr.relatedCollection),
                      IF Has(relationAttr, "relationType") THEN relationAttr.relationType ELSE "",
                      sideIsParent(relationAttr))

\* a converter without the relationship branch: "relationship" is looked up
\* in the primitive table like any other type
convertToTSType_noRelationship(attribute, context) ==
    LET valid == validateAttribute(attribute)
    IN  IF ~valid.ok THEN valid
        ELSE IF isEnumFormat(attribute) /\ elementsLength(attribute) > 0
        THEN Ok(handleEnumType(attribute))
        ELSE IF attribute.type \notin DOMAIN PRIMITIVE_TYPE_MAP
        THEN handleUnsupportedType(attribute, context)
        ELSE IF isArrayAttr(attribute)
        THEN Ok(handleArrayType(attribute, PRIMITIVE_TYPE_MAP[attribute.type]))
        ELSE Ok(PRIMITIVE_TYPE_MAP[attribute.type])

convertToTSType(attribute, context) ==
    LET valid == validateAttribute(attribute)
    IN  IF ~valid.ok THEN valid
        ELSE IF isEnumFormat(attribute) /\ elementsLength(attribute) > 0
        THEN Ok(handleEnumType(attribute))
        ELSE IF attribute.type = "relationship"
        THEN IF ~Has(attribute, "relatedCollection")
             THEN Throw("TypeError", "Cannot read properties of undefined (reading 'split')")
             ELSE Ok(relationshipType(attribute))
        ELSE IF attribute.type \notin DOMAIN PRIMITIVE_TYPE_MAP
        THEN handleUnsupportedType(attribute, context)
        ELSE IF isArrayAttr(attribute)
        THEN Ok(handleArrayType(attribute, PRIMITIVE_TYPE_MAP[attribute.type]))
        ELSE Ok(PRIMITIVE_TYPE_MAP[attribute.type])

-----------------------------------------------------------------------------
(* Configuration objects and parsed JSON                                   *)
(*                                                                         *)
(* A configuration object may hold a property explicitly set to undefined, *)
(* so its property values are options: None is undefined, Some(v) is v.    *)
(* A parsed JSON value is tagged with its kind.                            *)

\* { ...a, ...b }: every own property of b, undefined ones included, wins
Spread(a, b) == [k \in DOMAIN a \cup DOMAIN b |-> IF k \in DOMAIN b THEN b[k] ELSE a[k]]

\* o.k for a configuration object: undefined when absent
Get(o, k) == IF Has(o, k) THEN o[k] ELSE None

Truthy(v) == v # None /\ v[1] = TRUE

\* `${v}` for a boolean or undefined
boolToString(v) == IF v = None THEN "undefined" ELSE IF v[1] THEN "true" ELSE "false"

\* `${v}` for a string or undefined
strToString(v) == IF v = None THEN "undefined" ELSE v[1]

JNull == [json |-> "null"]
JNumber == [json |-> "number"]
JArray(items) == [json |-> "array", items |-> items]
JObject(fields) == [json |-> "object", fields |-> fields]

isNonNullObject(v) == v.json \in {"object", "array"}

-----------------------------------------------------------------------------
(* IDConstantsGenerator (id-constants-generator.ts)                        *)

\* name.trim()
trim(s) ==
    IF \A i \in 1..Len(s) : IsSpace(charAt(s, i)) THEN ""
    ELSE LET first == CHOOSE i \in 1..Len(s) :
                          ~IsSpace(charAt(s, i)) /\ \A k \in 1..(i - 1) : IsSpace(charAt(s, k))
             back == CHOOSE d \in 0..(Len(s) - 1) :
                          ~IsSpace(charAt(s, Len(s) - d))
                          /\ \A e \in 0..(d - 1) : IsSpace(charAt(s, Len(s) - e))
         IN  SubSeq(s, first, Len(s) - back)

\* s.replace(/\s+/g, '_')
RECURSIVE collapseSpaces(_)
collapseSpaces(s) ==
    IF s = "" THEN ""
    ELSE IF IsSpace(charAt(s, 1))
    THEN IF IsSpace(charAt(s, 2)) THEN collapseSpaces(sliceFrom(s, 2))
         ELSE "_" \o collapseSpaces(sliceFrom(s, 2))
    ELSE charAt(s, 1) \o collapseSpaces(sliceFrom(s, 2))

IsWordChar(c) == IsAlnum(c) \/ c = "_"

\* s.replace(/[^a-zA-Z0-9_]/g, '')
RECURSIVE removeNonWord(_)
removeNonWord(s) ==
    IF s = "" THEN ""
    ELSE (IF IsWordChar(charAt(s, 1)) THEN charAt(s, 1) ELSE "") \o removeNonWord(sliceFrom(s, 2))

\* s.replace(/[^a-zA-Z0-9_]/g, '_')
RECURSIVE replaceNonWord(_)
replaceNonWord(s) ==
    IF s = "" THEN ""
    ELSE (IF IsWordChar(charAt(s, 1)) THEN charAt(s, 1) ELSE "_") \o replaceNonWord(sliceFrom(s, 2))

\* s.replace(/^(\d)/, '_$1')
guardLeadingDigit(s) == IF IsDigit(charAt(s, 1)) THEN "_" \o s ELSE s

defaultNamingTransform(name) == removeNonWord(collapseSpaces(trim(name)))

\* config.namingTransform is a function; the model names it: "default" is
\* defaultNamingTransform, "identity" is a caller's name => name.
applyTransform(transform, name) ==
    IF transform = "default" THEN defaultNamingTransform(name) ELSE name

\* a sanitizer that only replaces characters and does not guard the first one
formatConstantName_noDigitGuard(name, prefix, suffix, transform) ==
    prefix \o toUpperCase(replaceNonWord(applyTransform(transform, name))) \o suffix

formatConstantName(name, prefix, suffix, transform) ==
    LET transformedName == applyTransform(transform, name)
        sanitizedName == guardLeadingDigit(replaceNonWord(transformedName))
    IN  prefix \o toUpperCase(sanitizedName) \o suffix

IDConstants_DEFAULT_CONFIG ==
    [generateDatabaseConstants |-> Some(TRUE), generateCollectionConstants |-> Some(TRUE),
     constantPrefix |-> Some(""), constantSuffix |-> Some(""),
     namingTransform |-> Some("default"), includeComments |-> Some(TRUE)]

validateInputConfig(inputConfig) ==
    IF ~isNonNullObject(inputConfig)
    THEN Throw("Error", "Invalid input configuration: Must be a non-null object")
    ELSE Ok("")

\* One entry of a constant table; entity is a database or a collection,
\* kind is "Database" or "Collection".  The entity's $id is the field id.
constantEntry(entity, kind, config) ==
    LET constantName == formatConstantName(entity.name, strToString(config.constantPrefix),
                                           strToString(config.constantSuffix),
                                           config.namingTransform[1])
        comment == IF Truthy(config.includeComments)
                   THEN "  /** " \o kind \o " ID for " \o entity.name \o " */\n"
                   ELSE ""
    IN  comment \o "  " \o constantName \o ": '"
        \o (IF Has(entity, "id") THEN entity.id ELSE "undefined") \o "',"

generateDatabaseConstants(databases, config) ==
    join([i \in 1..Len(databases) |-> constantEntry(databases[i], "Database", config)], "\n")

generateCollectionConstants(collections, config) ==
    join([i \in 1..Len(collections) |-> constantEntry(collections[i], "Collection", config)], "\n")

\* inputConfig.databases || [] : the array to map over
arrayOrEmpty(fields, name) ==
    IF Has(fields, name) /\ fields[name].json = "array" THEN fields[name].items ELSE <<>>

\* the value is truthy and has no map method
notArray(fields, name) == Has(fields, name) /\ fields[name].json \notin {"null", "array"}

\* the entries can be formatted: every name is a string and the transform a function
entriesWellFormed(entities, config) ==
    \A i \in 1..Len(entities) : config.namingTransform # None /\ Has(entities[i], "name")

databaseTable(databaseConstants) ==
    "/** Database identifiers for the project */\n      export const DATABASE_IDS = {\n      "
    \o databaseConstants \o "\n      };"

collectionTable(collectionConstants) ==
    "/** Collection identifiers for the project */\n      export const COLLECTION_IDS = {\n      "
    \o collectionConstants \o "\n      };"

\* `${flag ?? table}`
flagOrTable(flag, table) == IF flag = None THEN table ELSE boolToString(flag)

generateIDConstants(inputConfig, config) ==
    LET fullConfig == Spread(IDConstants_DEFAULT_CONFIG, config)
        valid == validateInputConfig(inputConfig)
    IN  IF ~valid.ok THEN valid
        ELSE
        LET fields == IF inputConfig.json = "object" THEN inputConfig.fields ELSE <<>>
            databases == arrayOrEmpty(fields, "databases")
            collections == arrayOrEmpty(fields, "collections")
        IN  IF notArray(fields, "databases")
            THEN Throw("TypeError", "(inputConfig.databases || []).map is not a function")
            ELSE IF ~entriesWellFormed(databases, fullConfig)
            THEN Throw("TypeError", "Cannot read properties of undefined")
            ELSE IF notArray(fields, "collections")
            THEN Throw("TypeError", "(inputConfig.collections || []).map is not a function")
            ELSE IF ~entriesWellFormed(collections, fullConfig)
            THEN Throw("TypeError", "Cannot read properties of undefined")
            ELSE Ok("\n      "
                    \o flagOrTable(fullConfig.generateDatabaseConstants,
                                   databaseTable(generateDatabaseConstants(databases, fullConfig)))
                    \o "\n\n      "
                    \o flagOrTable(fullConfig.generateCollectionConstants,
                                   collectionTable(generateCollectionConstants(collections, fullConfig)))
                    \o "\n    ")

-----------------------------------------------------------------------------
(* EnumGenerator (enum-generator.ts)                                       *)

Enum_DEFAULT_CONFIG ==
    [generateEnums |-> Some(TRUE), generateUnionTypes |-> Some(TRUE),
     namingStrategy |-> Some("pascal")]

\* words.map(capitalize).join('') over s.split(/[-_]/)
pascalCase(s) ==
    LET words == splitDashUnderscore(s)
    IN  join([i \in 1..Len(words) |-> capitalize(words[i])], "")

\* a type name that keeps the collection name's plural
generateTypeName_keepPlural(collectionName, attributeName) ==
    pascalCase(collectionName) \o pascalCase(attributeName)

generateTypeName(collectionName, attributeName) ==
    pascalCase(stripTrailingS(collectionName)) \o pascalCase(attributeName)

\* value.replace(/[^a-zA-Z0-9]/g, '_')
RECURSIVE replaceNonAlnum(_)
replaceNonAlnum(s) ==
    IF s = "" THEN ""
    ELSE (IF IsAlnum(charAt(s, 1)) THEN charAt(s, 1) ELSE "_") \o replaceNonAlnum(sliceFrom(s, 2))

\* a key whose camel form is lowercased throughout
formatEnumKey_camelLower(value, strategy) ==
    LET sanitizedKey == toUpperCase(replaceNonAlnum(value))
    IN  CASE strategy = "pascal" -> sanitizedKey
          [] strategy \in {"camel", "snake"} -> toLowerCase(sanitizedKey)
          [] OTHER -> sanitizedKey

formatEnumKey(value, strategy) ==
    LET sanitizedKey == toUpperCase(replaceNonAlnum(value))
    IN  CASE strategy = "pascal" -> sanitizedKey
          [] strategy = "camel" -> toLowerCase(charAt(sanitizedKey, 1)) \o sliceFrom(sanitizedKey, 2)
          [] strategy = "snake" -> toLowerCase(sanitizedKey)
          [] OTHER -> sanitizedKey

\* namingStrategy is an option; the parameter default 'pascal' replaces undefined
generateEnum(typeName, elements, namingStrategy) ==
    LET strategy == IF namingStrategy = None THEN "pascal" ELSE namingStrategy[1]
        enumValues ==
            join([i \in 1..Len(elements) |->
                     "  /** Represents the " \o elements[i] \o " option */\n  "
                     \o formatEnumKey(elements[i], strategy) \o " = \"" \o elements[i] \o "\""],
                 ",\n")
    IN  "\n/**\n * Enum representing " \o typeName
        \o "\n * Provides type-safe representation of possible values\n */\nexport enum "
        \o typeName \o " {\n" \o enumValues \o "\n}\n"

generateUnionType(typeName, elements) ==
    "\n/**\n * Union type representing " \o typeName
    \o "\n * Provides flexible type definition for possible values\n */\nexport type "
    \o typeName \o "Type = " \o quotedUnion(elements) \o ";\n"

\* a map whose set keeps the value already stored under the key
mapSet_keepFirst(map, key, value) ==
    IF \E i \in 1..Len(map) : map[i].key = key
    THEN map
    ELSE Append(map, [key |-> key, value |-> value])

\* Map.prototype.set on an insertion-ordered map held as a sequence of entries
mapSet(map, key, value) ==
    IF \E i \in 1..Len(map) : map[i].key = key
    THEN [i \in 1..Len(map) |-> IF map[i].key = key THEN [key |-> key, value |-> value] ELSE map[i]]
    ELSE Append(map, [key |-> key, value |-> value])

isExtractedEnum(attr) ==
    Has(attr, "format") /\ attr.format = "enum" /\ Has(attr, "elements") /\ Len(attr.elements) > 0

\* the enum attributes of the collections, in visiting order, as
\* [collection, attr] pairs
RECURSIVE enumAttributesOf(_)
enumAttributesOf(collections) ==
    IF collections = <<>> THEN <<>>
    ELSE LET c == Head(collections)
             own == SelectSeq([i \in 1..Len(c.attributes) |->
                                  [collection |-> c, attr |-> c.attributes[i]]],
                              LAMBDA e : isExtractedEnum(e.attr))
         IN  own \o enumAttributesOf(Tail(collections))

RECURSIVE setAll(_, _)
setAll(map, entries) ==
    IF entries = <<>> THEN map
    ELSE setAll(mapSet(map, generateTypeName(Head(entries).collection.name, Head(entries).attr.key),
                       Head(entries).attr.elements),
                Tail(entries))

\* generateTypeName calls replace on the collection name and split on the key
namesPresent(entry) == Has(entry.collection, "name") /\ Has(entry.attr, "key")

extractEnumTypes(collections) ==
    LET entries == enumAttributesOf(collections)
    IN  IF \E i \in 1..Len(entries) : ~namesPresent(entries[i])
        THEN LET bad == entries[CHOOSE i \in 1..Len(entries) :
                                    ~namesPresent(entries[i])
                                    /\ \A k \in 1..(i - 1) : namesPresent(entries[k])]
             IN  IF ~Has(bad.collection, "name")
                 THEN Throw("TypeError", "Cannot read properties of undefined (reading 'replace')")
                 ELSE Throw("TypeError", "Cannot read properties of undefined (reading 'split')")
        ELSE Ok(setAll(<<>>, entries))

\* the two texts built by enumTypes.forEach under the merged configuration
enumTexts(enumTypes, fullConfig) ==
    [enumDefinitions |->
        IF Truthy(fullConfig.generateEnums)
        THEN join([i \in 1..Len(enumTypes) |->
                      generateEnum(enumTypes[i].key, enumTypes[i].value,
                                   fullConfig.namingStrategy)], "")
        ELSE "",
     typeDefinitions |->
        IF Truthy(fullConfig.generateUnionTypes)
        THEN join([i \in 1..Len(enumTypes) |->
                      generateUnionType(enumTypes[i].key, enumTypes[i].value)], "")
        ELSE ""]

generateEnumDefinitions(collections, config) ==
    mapResult(extractEnumTypes(collections),
              LAMBDA enumTypes : enumTexts(enumTypes, Spread(Enum_DEFAULT_CONFIG, config)))

-----------------------------------------------------------------------------
(* InterfaceGenerator (interface-generator.ts)                             *)

Interface_DEFAULT_CONFIG ==
    [includeMetadata |-> Some(TRUE), optionalMetadata |-> Some(TRUE),
     interfacePrefix |-> Some(""), interfaceSuffix |-> Some("")]

\* prefix and suffix are options; the parameter default '' replaces undefined
generateInterfaceName(collectionName, prefix, suffix) ==
    (IF prefix = None THEN "" ELSE prefix[1])
    \o pascalCase(stripTrailingS(collectionName))
    \o (IF suffix = None THEN "" ELSE suffix[1])

\* `${relationAttr.relationType}`
propToString(o, f) == IF Has(o, f) THEN o[f] ELSE "undefined"

generateAttributeComments(attribute) ==
    LET sizeComment ==
            IF Has(attribute, "size") /\ attribute.size # 0
            THEN <<"/** Maximum size: " \o ToString(attribute.size) \o " characters */">>
            ELSE <<>>
        enumComment ==
            IF isEnumFormat(attribute) /\ Has(attribute, "elements")
            THEN <<"/** Possible values: " \o join(attribute.elements, ", ") \o " */">>
            ELSE <<>>
        relationComments ==
            IF Has(attribute, "type") /\ attribute.type = "relationship"
            THEN <<"/** Relationship type: " \o propToString(attribute, "relationType") \o " */",
                   "/** Related collection: " \o propToString(attribute, "relatedCollection") \o " */">>
                 \o (IF Has(attribute, "twoWay") /\ attribute.twoWay
                     THEN <<"/** Two-way relationship with key: "
                            \o propToString(attribute, "twoWayKey") \o " */">>
                     ELSE <<>>)
                 \o <<"/** Deletion behavior: " \o propToString(attribute, "onDelete") \o " */">>
            ELSE <<>>
        comments == sizeComment \o enumComment \o relationComments
    IN  join([i \in 1..Len(comments) |-> "  " \o comments[i] \o "\n"], "")

\* a definition that marks every field optional
generateAttributeDefinition_alwaysOptional(attribute) ==
    mapResult(convertToTSType(attribute,
                  Some(Obj([attributeName |->
                               IF Has(attribute, "key") THEN Some(attribute.key) ELSE None]))),
              LAMBDA typeName :
                  generateAttributeComments(attribute)
                  \o "  " \o attribute.key \o "?: " \o typeName \o ";")

generateAttributeDefinition(attribute) ==
    mapResult(convertToTSType(attribute,
                  Some(Obj([attributeName |->
                               IF Has(attribute, "key") THEN Some(attribute.key) ELSE None]))),
              LAMBDA typeName :
                  generateAttributeComments(attribute)
                  \o "  " \o attribute.key
                  \o (IF ~(Has(attribute, "required") /\ attribute.required) THEN "?" ELSE "")
                  \o ": " \o typeName \o ";")

\* attributes.map(generateAttributeDefinition).filter(Boolean).join('\n');
\* the first attribute that cannot be converted ends the map with its error
generateAttributeDefinitions(attributes) ==
    mapResult(collect([i \in 1..Len(attributes) |-> generateAttributeDefinition(attributes[i])]),
              LAMBDA definitions : join(definitions, "\n"))

\* metadata fields whose first one is never marked optional
addMetadataFields_idRequired(attributes, optional) ==
    LET optionalMarker == IF optional THEN "?" ELSE ""
    IN  "\n  /** Unique document identifier */\n  $id: string;\n"
        \o "\n  /** Document creation timestamp */\n  $createdAt" \o optionalMarker \o ": string;\n"
        \o "\n  /** Document last update timestamp */\n  $updatedAt" \o optionalMarker \o ": string;\n"
        \o "\n  /** Database identifier */\n  $databaseId" \o optionalMarker \o ": string;\n"
        \o "\n  /** Collection identifier */\n  $collectionId" \o optionalMarker \o ": string;\n"
        \o "\n  /** Document-level permissions */\n  $permissions" \o optionalMarker \o ": string[];\n"
        \o (IF attributes # "" THEN "\n" \o attributes ELSE "")

addMetadataFields(attributes, optional) ==
    LET optionalMarker == IF optional THEN "?" ELSE ""
        metadataFields ==
            "\n  /** Unique document identifier */\n  $id" \o optionalMarker \o ": string;\n"
            \o "\n  /** Document creation timestamp */\n  $createdAt" \o optionalMarker \o ": string;\n"
            \o "\n  /** Document last update timestamp */\n  $updatedAt" \o optionalMarker \o ": string;\n"
            \o "\n  /** Database identifier */\n  $databaseId" \o optionalMarker \o ": string;\n"
            \o "\n  /** Collection identifier */\n  $collectionId" \o optionalMarker \o ": string;\n"
            \o "\n  /** Document-level permissions */\n  $permissions" \o optionalMarker \o ": string[];\n"
    IN  metadataFields \o (IF attributes # "" THEN "\n" \o attributes ELSE "")

\* config.includeMetadata ? addMetadataFields(attributes, ...) : attributes
interfaceContent(attributes, config) ==
    IF Truthy(config.includeMetadata)
    THEN addMetadataFields(attributes, Truthy(config.optionalMetadata))
    ELSE attributes

generateCollectionInterface(collection, config) ==
    IF ~Has(collection, "name")
    THEN Throw("TypeError", "Cannot read properties of undefined (reading 'replace')")
    ELSE mapResult(generateAttributeDefinitions(collection.attributes),
                   LAMBDA attributes :
                       "\n/**\n * Represents a " \o collection.name
                       \o " document in the Appwrite database\n * @interface\n */\nexport interface "
                       \o generateInterfaceName(collection.name, config.interfacePrefix,
                                                config.interfaceSuffix)
                       \o " {\n" \o interfaceContent(attributes, config) \o "\n}\n")

\* { ...DEFAULT_CONFIG, ...config }; config is an option: the parameter
\* default DEFAULT_CONFIG replaces undefined
interfaceFullConfig(config) ==
    Spread(Interface_DEFAULT_CONFIG, IF config = None THEN Interface_DEFAULT_CONFIG ELSE config[1])

generateInterfaces(collections, config) ==
    mapResult(collect([i \in 1..Len(collections) |->
                          generateCollectionInterface(collections[i], interfaceFullConfig(config))]),
              LAMBDA interfaces : join(interfaces, "\n"))

-----------------------------------------------------------------------------
(* TypesGenerator.formatGeneratedTypes (generator/index.ts)                *)

isNewlineRun(s, i) == SubSeq(s, i, i + 2) = "\n\n\n"

\* s.replace(/\n{3,}/g, '\n\n'): every maximal run of three or more newlines
\* becomes two newlines
RECURSIVE collapseNewlines(_)
collapseNewlines(s) ==
    IF ~\E i \in 1..(Len(s) - 2) : isNewlineRun(s, i) THEN s
    ELSE LET i == CHOOSE j \in 1..(Len(s) - 2) :
                      isNewlineRun(s, j) /\ \A k \in 1..(j - 1) : ~isNewlineRun(s, k)
             n == CHOOSE k \in 3..(Len(s) - i + 1) :
                      charAt(s, i + k) # "\n" /\ \A j \in 3..(k - 1) : charAt(s, i + j) = "\n"
         IN  SubSeq(s, 1, i - 1) \o "\n\n" \o collapseNewlines(sliceFrom(s, i + n))

\* a formatter that does not trim
formatGeneratedTypes_noTrim(generatedTypes) == collapseNewlines(generatedTypes) \o "\n"

formatGeneratedTypes(generatedTypes) == trim(collapseNewlines(generatedTypes)) \o "\n"

-----------------------------------------------------------------------------
(* Errors (utils/errors.ts) and FileSystemUtils (utils/file-system.ts)     *)

GeneratorError(message) == Throw("GeneratorError", message)
FileSystemError(message) == Throw("FileSystemError", "File System Error: " \o message)

\* error instanceof GeneratorError: the class or one of its subclasses
isGeneratorError(error) ==
    error.class \in {"GeneratorError", "ConfigurationError", "FileSystemError"}

\* error instanceof Error ? error.message : String(error); a thrown value
\* that is no Error is held as class "string" with the string as message
messageOf(error) == error.message

StartsWith(s, prefix) == Len(s) >= Len(prefix) /\ SubSeq(s, 1, Len(prefix)) = prefix

\* path.resolve(process.cwd(), filePath) for the working directory /cwd
resolve(filePath) ==
    IF StartsWith(filePath, "/") THEN filePath
    ELSE IF StartsWith(filePath, "./") THEN "/cwd/" \o sliceFrom(filePath, 3)
    ELSE "/cwd/" \o filePath

\* files is the file system: a function from resolved paths to contents
fileExists(files, filePath) == resolve(filePath) \in DOMAIN files

validateFileExists(files, filePath) ==
    IF fileExists(files, filePath) THEN Ok(TRUE)
    ELSE FileSystemError("File not found or not readable: " \o filePath)

readFile(files, filePath) ==
    IF fileExists(files, filePath) THEN Ok(files[resolve(filePath)])
    ELSE FileSystemError("Unable to read file: " \o filePath)

\* the outcome of FileSystemUtils.writeFile on a file system that accepts
\* the write or refuses it
writeFile(writable, filePath) ==
    IF writable THEN Ok(resolve(filePath))
    ELSE FileSystemError("Unable to write file: " \o filePath)

\* The content of a file is held as the JSON value it denotes, or as
\* Malformed when the text is no JSON document.
Malformed == [json |-> "malformed"]

JSON_parse(content) ==
    IF content = Malformed
    THEN Throw("SyntaxError", "Unexpected end of JSON input")
    ELSE Ok(content)

-----------------------------------------------------------------------------
(* TypesGenerator (generator/index.ts)                                     *)

TypesGenerator_DEFAULT_CONFIG ==
    [enumConfig |-> Some([generateEnums |-> Some(TRUE), generateUnionTypes |-> Some(TRUE),
                          namingStrategy |-> Some("pascal")]),
     interfaceConfig |-> Some([includeMetadata |-> Some(TRUE), optionalMetadata |-> Some(TRUE),
                               interfaceSuffix |-> Some(""), interfacePrefix |-> Some("")])]

\* ...config.enumConfig: the own properties of the sub-configuration, none
\* when it is undefined
subConfig(config, name) == IF Get(config, name) = None THEN <<>> ELSE config[name][1]

\* the constructor: this.config
TypesGenerator(config) ==
    Spread(Spread(TypesGenerator_DEFAULT_CONFIG, config),
           [enumConfig |->
                Some(Spread(TypesGenerator_DEFAULT_CONFIG.enumConfig[1],
                            subConfig(config, "enumConfig"))),
            interfaceConfig |->
                Some(Spread(TypesGenerator_DEFAULT_CONFIG.interfaceConfig[1],
                            subConfig(config, "interfaceConfig"))),
            transformers |->
                Some(IF Get(config, "transformers") = None THEN <<>> ELSE config.transformers[1]),
            idConstantsConfig |->
                Some(Spread([constantPrefix |-> Some(""), constantSuffix |-> Some(""),
                             includeComments |-> Some(TRUE)],
                            subConfig(config, "idConstantsConfig")))])

\* !this.config.inputPath: undefined or the empty string
isBlank(path) == path = None \/ path[1] = ""

validateConfiguration(config) ==
    IF isBlank(Get(config, "inputPath"))
    THEN GeneratorError("Input path is required for type generation")
    ELSE IF isBlank(Get(config, "outputPath"))
    THEN GeneratorError("Output path is required for type generation")
    ELSE Ok(TRUE)

\* a catch block that leaves out what it caught
readFailure_noMessage(result) ==
    IF result.ok THEN result
    ELSE GeneratorError("Failed to read or parse input configuration")

\* the catch block of readInputConfiguration
readFailure(result) ==
    IF result.ok THEN result
    ELSE GeneratorError("Failed to read or parse input configuration: " \o messageOf(result.error))

\* JSON.parse of what was read, unless the read threw
parseRead(content) == IF content.ok THEN JSON_parse(content.value) ELSE content

readInputConfiguration(files, config) ==
    readFailure(parseRead(readFile(files, config.inputPath[1])))

\* a filter that keeps every collection that has an attributes array
isProcessable_evenEmpty(collection) == Has(collection, "attributes")

\* collection.attributes && collection.attributes.length > 0
isProcessable(collection) == Has(collection, "attributes") /\ Len(collection.attributes) > 0

\* ({ name: collection.name, attributes: collection.attributes })
nameAndAttributes(collection) ==
    Obj([name |-> IF Has(collection, "name") THEN Some(collection.name) ELSE None,
         attributes |-> Some(collection.attributes)])

hasCollectionsArray(inputConfig) ==
    /\ inputConfig.json = "object"
    /\ Has(inputConfig.fields, "collections")
    /\ inputConfig.fields.collections.json = "array"

processableOf(items) ==
    LET kept == SelectSeq(items, isProcessable)
    IN  [i \in 1..Len(kept) |-> nameAndAttributes(kept[i])]

\* an extraction that takes a schema without collections for an empty one
extractProcessableCollections_lenient(inputConfig) ==
    IF ~hasCollectionsArray(inputConfig) THEN Ok(<<>>)
    ELSE Ok(processableOf(inputConfig.fields.collections.items))

extractProcessableCollections(inputConfig) ==
    IF inputConfig = JNull
    THEN Throw("TypeError", "Cannot read properties of null (reading 'collections')")
    ELSE IF ~hasCollectionsArray(inputConfig)
    THEN GeneratorError("No collections found in input configuration")
    ELSE Ok(processableOf(inputConfig.fields.collections.items))

\* now is new Date().toISOString()
header(now) ==
    "// Auto-generated Appwrite Types\n// Generated on " \o now
    \o "\n// WARNING: This file is auto-generated. Do not modify manually.\n\n"

\* the text assembled with the enum section ahead of the union-type section
initialTypes_enumsFirst(head, enums, interfaces, constants) ==
    IF ~enums.ok THEN enums
    ELSE IF ~interfaces.ok THEN interfaces
    ELSE IF ~constants.ok THEN constants
    ELSE Ok(head \o enums.value.enumDefinitions \o "\n" \o enums.value.typeDefinitions \o "\n"
            \o interfaces.value \o constants.value \o "\n")

\* the text assembled from the results of the three generators, which run
\* in this order; the first that throws ends generateInitialTypes
initialTypes(head, enums, interfaces, constants) ==
    IF ~enums.ok THEN enums
    ELSE IF ~interfaces.ok THEN interfaces
    ELSE IF ~constants.ok THEN constants
    ELSE Ok(head \o enums.value.typeDefinitions \o "\n" \o enums.value.enumDefinitions \o "\n"
            \o interfaces.value \o constants.value \o "\n")

\* the generators that generateInitialTypes called, in calling order
generatorsCalled(enums, interfaces) ==
    IF ~enums.ok THEN <<"EnumGenerator">>
    ELSE IF ~interfaces.ok THEN <<"EnumGenerator", "InterfaceGenerator">>
    ELSE <<"EnumGenerator", "InterfaceGenerator", "IDConstantsGenerator">>

enumsOf(collections, config) == generateEnumDefinitions(collections, config.enumConfig[1])
interfacesOf(collections, config) == generateInterfaces(collections, config.interfaceConfig)
constantsOf(inputConfig, config) == generateIDConstants(inputConfig, config.idConstantsConfig[1])

generateInitialTypes(collections, inputConfig, config, now) ==
    initialTypes(header(now), enumsOf(collections, config), interfacesOf(collections, config),
                 constantsOf(inputConfig, config))

\* A transformer is a function of the caller; the model names the ones it
\* runs.  context is { inputConfig, collections }.
applyTransformer(transformer, types, context) ==
    CASE transformer = "banner" -> Ok("// banner\n" \o types)
      [] transformer = "footer" -> Ok(types \o "\n\n\n\n// footer\n\n")
      [] transformer = "count" ->
            Ok(types \o "// " \o ToString(Len(context.collections)) \o " collections\n")
      [] transformer = "throwsError" -> Throw("Error", "transformer failed")
      [] transformer = "throwsGeneratorError" -> GeneratorError("rejected by transformer")
      [] transformer = "throwsString" -> Throw("string", "not an Error")

\* a handler that rethrows whatever it caught
handleGenerationError_rethrow(error) == [ok |-> FALSE, error |-> error]

handleGenerationError(error) ==
    IF isGeneratorError(error) THEN [ok |-> FALSE, error |-> error]
    ELSE GeneratorError("Unexpected error during type generation: " \o messageOf(error))

\* the catch block of generateTypes
generateTypesFailure(error) ==
    IF isGeneratorError(error) THEN [ok |-> FALSE, error |-> error]
    ELSE GeneratorError("Type generation failed: " \o messageOf(error))

-----------------------------------------------------------------------------
(* ConfigManager (utils/file-system.ts) and CLI (cli.ts)                   *)

\* what ConfigSchema.parse({}) gives
ConfigSchema_defaults ==
    [inputPath |-> "./appwrite.json", outputPath |-> "./src/lib/appwrite/types.ts",
     generateEnums |-> TRUE, generateInterfaces |-> TRUE,
     generateDatabaseConstants |-> TRUE, generateCollectionConstants |-> TRUE]

\* a parsed object some of whose keys hold a value of another type than
\* the schema's (a number for a path, a string for a flag): the keys are
\* named, the values left out
IllTyped(fields, keys) == [json |-> "object", fields |-> fields, illTyped |-> keys]

\* ConfigSchema.parse(rawConfig): the keys of the schema, defaults for the
\* absent ones, other keys stripped; a value that is no object, or an
\* object with an ill-typed key of the schema, is refused.
ConfigSchema_parse(rawConfig) ==
    IF rawConfig.json # "object" THEN Throw("ZodError", "Expected object")
    ELSE IF Has(rawConfig, "illTyped") /\ rawConfig.illTyped \cap DOMAIN ConfigSchema_defaults # {}
    THEN Throw("ZodError", "Invalid type")
    ELSE Ok([k \in DOMAIN ConfigSchema_defaults |->
                IF Has(rawConfig.fields, k) THEN rawConfig.fields[k] ELSE ConfigSchema_defaults[k]])

\* the body of the for loop of loadConfig for one search path
loadFrom(files, searchPath) ==
    IF ~fileExists(files, searchPath) THEN Throw("Error", "ENOENT")
    ELSE IF files[resolve(searchPath)] = Malformed THEN JSON_parse(Malformed)
    ELSE ConfigSchema_parse(files[resolve(searchPath)])

RECURSIVE loadFirst(_, _)
loadFirst(files, searchPaths) ==
    IF searchPaths = <<>> THEN ConfigSchema_defaults
    ELSE IF loadFrom(files, Head(searchPaths)).ok THEN loadFrom(files, Head(searchPaths)).value
    ELSE loadFirst(files, Tail(searchPaths))

\* a search that tries the explicit path after the default ones
searchPaths_explicitLast(configPath) ==
    <<"./appwrite-types.config.json", "./appwrite-types.json", "./types-generator.config.json">>
    \o (IF configPath = None \/ configPath[1] = "" THEN <<>> ELSE <<configPath[1]>>)

\* configPath is an option: [configPath, ...].filter(Boolean)
searchPaths(configPath) ==
    (IF configPath = None \/ configPath[1] = "" THEN <<>> ELSE <<configPath[1]>>)
    \o <<"./appwrite-types.config.json", "./appwrite-types.json",
         "./types-generator.config.json">>

loadConfig(files, configPath) == loadFirst(files, searchPaths(configPath))

\* CLI.run lines 47-49: the loaded configuration overridden by the options;
\* options.enums and options.interfaces are booleans, true unless the
\* --no- flag was given; options.database and options.collections are not read
overrideConfig(loaded, options) ==
    [loaded EXCEPT !.outputPath = IF options.output = None \/ options.output[1] = ""
                                  THEN @ ELSE options.output[1],
                   !.generateEnums = options.enums,
                   !.generateInterfaces = options.interfaces]

\* the configuration object as a TypesGenerator argument: every property present
asGeneratorConfig(loaded) == [k \in DOMAIN loaded |-> Some(loaded[k])]

\* the catch block of CLI.run: the line on stderr and exit code 1; the
\* leading symbol of the line is left out
cliFailure(error) ==
    [exitCode |-> 1,
     stderr |-> (IF isGeneratorError(error) THEN "Generation Error: " ELSE "Unexpected Error: ")
                \o messageOf(error)]

cliSuccess(outputPath) ==
    [exitCode |-> 0, stdout |-> "Types generated successfully at " \o outputPath]

-----------------------------------------------------------------------------
(* Inputs of the type converter                                            *)

AttrKeys == {None, Some(""), Some("role")}
AttrTypes == {None, Some(""), Some("string"), Some("integer"), Some("float"),
              Some("boolean"), Some("datetime"), Some("relationship"), Some("email")}
AttrFormats == {None, Some("enum"), Some("email")}
AttrElements == {None, Some(<<>>), Some(<<"admin", "member">>)}
RelatedCollections == {None, Some(""), Some("users"), Some("blog_posts")}
RelationTypes == {None, Some("oneToMany"), Some("manyToOne"), Some("oneToOne"),
                  Some("manyToMany"), Some("oneToFew")}
Sides == {Some("parent"), Some("child")}

PlainAttributes ==
    { Obj([key |-> k, type |-> t, required |-> Some(TRUE), array |-> a,
           format |-> f, elements |-> e]) :
        k \in AttrKeys, t \in AttrTypes, a \in {None, Some(TRUE), Some(FALSE)},
        f \in AttrFormats, e \in AttrElements }

RelationAttributes ==
    { Obj([key |-> k, type |-> t, required |-> Some(FALSE), array |-> Some(FALSE),
           format |-> f, elements |-> e,
           relatedCollection |-> rc, relationType |-> rt, side |-> s]) :
        k \in {Some(""), Some("author")}, t \in {Some("relationship"), Some("string")},
        f \in {None, Some("enum")}, e \in {None, Some(<<"a">>)},
        rc \in RelatedCollections, rt \in RelationTypes, s \in Sides }

Attributes == PlainAttributes \cup RelationAttributes

\* the context argument: omitted, or the forms the callers pass
Contexts(attribute) ==
    {None, Some(Obj([attributeName |-> IF Has(attribute, "key") THEN Some(attribute.key) ELSE None])),
     Some([collectionName |-> "users", attributeName |-> "k"])}

-----------------------------------------------------------------------------
(* Specification of calls to TypeConverter.convertToTSType                 *)

InitConvert ==
    /\ \E a \in Attributes : \E c \in Contexts(a) : args = [attribute |-> a, context |-> c]
    /\ ret = Pending
    /\ NoRun

ConvertToTSType ==
    /\ ret = Pending
    /\ Has(args, "attribute")
    /\ ret' = Returned("convertToTSType", convertToTSType(args.attribute, args.context))
    /\ UNCHANGED <<args, pipelineVars>>

NextConvert == ConvertToTSType

SpecConvert == InitConvert /\ [][NextConvert]_vars

-----------------------------------------------------------------------------
(* Specification of calls to IDConstantsGenerator.formatConstantName       *)

MaxNameLen == 3
NameAlphabet == {"a", "Z", "7", " ", "-", "_"}

RECURSIVE StringsUpTo(_, _)
StringsUpTo(alphabet, n) ==
    IF n = 0 THEN {""}
    ELSE LET shorter == StringsUpTo(alphabet, n - 1)
         IN  shorter \cup {s \o c : s \in shorter, c \in alphabet}

Names == StringsUpTo(NameAlphabet, MaxNameLen) \ {""}

InitConstantName ==
    /\ \E n \in Names, t \in {"default", "identity"} :
            args = [name |-> n, prefix |-> "", suffix |-> "", transform |-> t]
    /\ ret = Pending
    /\ NoRun

FormatConstantName ==
    /\ ret = Pending
    /\ Has(args, "transform")
    /\ ret' = Returned("formatConstantName",
                       formatConstantName(args.name, args.prefix, args.suffix, args.transform))
    /\ UNCHANGED <<args, pipelineVars>>

NextConstantName == FormatConstantName

SpecConstantName == InitConstantName /\ [][NextConstantName]_vars

\* C10: the key that formatConstantName derives from a non-empty name with
\* the default naming transform (and the default empty prefix and suffix)
\* holds only characters of [A-Z0-9_] and does not begin with a digit.
C10_ConstantKeyAlphabet ==
    (ret.fn = "formatConstantName" /\ args.transform = "default") =>
        /\ \A i \in 1..Len(ret.result) :
              \/ IsUpper(charAt(ret.result, i))
              \/ IsDigit(charAt(ret.result, i))
              \/ charAt(ret.result, i) = "_"
        /\ ~IsDigit(charAt(ret.result, 1))

C10_Witness ==
    /\ ret.fn = "formatConstantName"
    /\ args = [name |-> "7 a", prefix |-> "", suffix |-> "", transform |-> "default"]
    /\ ret.result = "_7_A"

-----------------------------------------------------------------------------
(* Specification of calls to IDConstantsGenerator.generateIDConstants      *)

DatabaseLists ==
    {<<>>,
     <<[id |-> "db1", name |-> "Main DB"]>>,
     <<[id |-> "db1", name |-> "Main DB"], [id |-> "db2", name |-> "logs"]>>,
     <<[id |-> "db3"]>>}

CollectionLists ==
    {<<>>,
     <<[id |-> "c1", name |-> "Users", attributes |-> <<>>]>>,
     <<[id |-> "c1", name |-> "Users"], [id |-> "c2", name |-> "blog-posts"]>>}

JsonOf(lists) == {JArray(l) : l \in lists} \cup {JNull, JObject(<<>>)}

InputConfigs ==
    {JObject(Obj([databases |-> d, collections |-> c])) :
        d \in {None} \cup {Some(v) : v \in JsonOf(DatabaseLists)},
        c \in {None} \cup {Some(v) : v \in JsonOf(CollectionLists)}}
    \cup {JNull, JNumber}

Flags == {None, Some(None), Some(Some(TRUE)), Some(Some(FALSE))}

IDConstantsConfigs ==
    {Obj([generateDatabaseConstants |-> d, generateCollectionConstants |-> c,
          includeComments |-> i]) :
        d \in Flags, c \in Flags, i \in {None, Some(Some(FALSE))}}

InitIDConstants ==
    /\ \E i \in InputConfigs, c \in IDConstantsConfigs : args = [inputConfig |-> i, config |-> c]
    /\ ret = Pending
    /\ NoRun

GenerateIDConstants ==
    /\ ret = Pending
    /\ Has(args, "inputConfig")
    /\ ret' = Returned("generateIDConstants", generateIDConstants(args.inputConfig, args.config))
    /\ UNCHANGED <<args, pipelineVars>>

NextIDConstants == GenerateIDConstants

SpecIDConstants == InitIDConstants /\ [][NextIDConstants]_vars

\* the table named tableName holds the entry the claim expects for every entity
expectedEntries(result, tableName, entities) ==
    \A i \in 1..Len(entities) :
        /\ Contains(result, "export const " \o tableName \o " = {")
        /\ Contains(result, toUpperCase(defaultNamingTransform(entities[i].name))
                            \o ": '" \o entities[i].id \o "'")

\* C1: with the default configuration, the output of generateIDConstants
\* holds a DATABASE_IDS table with an entry NAME: 'id' for every database of
\* the schema, NAME being the sanitized, uppercased display name, and a
\* COLLECTION_IDS table with such an entry for every collection.
C1_ConstantTables ==
    (/\ ret.fn = "generateIDConstants"
     /\ args.config = <<>>
     /\ args.inputConfig \in {JObject([databases |-> JArray(d), collections |-> JArray(c)]) :
                                  d \in DatabaseLists \ {<<[id |-> "db3"]>>}, c \in CollectionLists})
    => /\ ret.result.ok
       /\ expectedEntries(ret.result.value, "DATABASE_IDS",
                          args.inputConfig.fields.databases.items)
       /\ expectedEntries(ret.result.value, "COLLECTION_IDS",
                          args.inputConfig.fields.collections.items)

-----------------------------------------------------------------------------
(* Specification of calls to the enum and interface generators             *)

MaxAttributes == 2

roleAttribute ==
    [key |-> "role", type |-> "string", required |-> TRUE, format |-> "enum",
     elements |-> <<"admin", "member">>]

SchemaAttributes ==
    {roleAttribute,
     [key |-> "post_status", type |-> "string", required |-> FALSE, array |-> TRUE,
      format |-> "enum", elements |-> <<"in-review", "done">>],
     [key |-> "title", type |-> "string", required |-> TRUE, array |-> FALSE, size |-> 255],
     [key |-> "author", type |-> "relationship", required |-> FALSE, array |-> FALSE,
      relatedCollection |-> "users", relationType |-> "manyToOne", twoWay |-> TRUE,
      twoWayKey |-> "posts", side |-> "parent", onDelete |-> "setNull"],
     [key |-> "geo", type |-> "point", required |-> FALSE, array |-> FALSE],
     [type |-> "string", required |-> FALSE, format |-> "enum", elements |-> <<"x">>]}

RECURSIVE SeqsUpTo(_, _)
SeqsUpTo(S, n) ==
    IF n = 0 THEN {<<>>}
    ELSE LET shorter == SeqsUpTo(S, n - 1)
         IN  shorter \cup {Append(q, x) : q \in shorter, x \in S}

AttributeLists == SeqsUpTo(SchemaAttributes, MaxAttributes) \ {<<>>}

SchemaCollections ==
    {[id |-> "c1", name |-> n, attributes |-> a] : n \in {"Users", "blog_posts"}, a \in AttributeLists}
    \cup {[id |-> "c0", attributes |-> <<roleAttribute>>]}

PairedCollections == {c \in SchemaCollections : Len(c.attributes) = 1}

CollectionInputs ==
    {<<c>> : c \in SchemaCollections} \cup {<<c, d>> : c \in PairedCollections, d \in PairedCollections}

EnumConfigs ==
    {Obj([generateEnums |-> g, generateUnionTypes |-> u, namingStrategy |-> n]) :
        g \in {None, Some(Some(FALSE))}, u \in {None, Some(Some(FALSE))},
        n \in {None, Some(None), Some(Some("pascal")), Some(Some("camel")), Some(Some("snake"))}}

InterfaceConfigs ==
    {None} \cup
    {Some(Obj([includeMetadata |-> m, optionalMetadata |-> o,
               interfacePrefix |-> p, interfaceSuffix |-> x])) :
        m \in {None, Some(None), Some(Some(FALSE))},
        o \in {None, Some(Some(TRUE)), Some(Some(FALSE))},
        p \in {None, Some(Some("I"))}, x \in {None, Some(Some("Doc"))}}

InitGenerators ==
    /\ \E c \in CollectionInputs : args = [collections |-> c]
    /\ ret = Pending
    /\ NoRun

GenerateEnumDefinitions ==
    /\ ret = Pending
    /\ DOMAIN args = {"collections"}
    /\ \E config \in EnumConfigs :
          /\ args' = [collections |-> args.collections, config |-> config]
          /\ ret' = Returned("generateEnumDefinitions",
                             generateEnumDefinitions(args.collections, config))
    /\ UNCHANGED pipelineVars

GenerateInterfaces ==
    /\ ret = Pending
    /\ DOMAIN args = {"collections"}
    /\ \E config \in InterfaceConfigs :
          /\ args' = [collections |-> args.collections, config |-> config]
          /\ ret' = Returned("generateInterfaces", generateInterfaces(args.collections, config))
    /\ UNCHANGED pipelineVars

NextGenerators == GenerateEnumDefinitions \/ GenerateInterfaces

SpecGenerators == InitGenerators /\ [][NextGenerators]_vars

\* the call was made on the single collection Users holding the attribute role
onUsersWithRole ==
    /\ ret.fn \in {"generateEnumDefinitions", "generateInterfaces"}
    /\ Len(args.collections) = 1
    /\ Has(args.collections[1], "name") /\ args.collections[1].name = "Users"
    /\ \E i \in 1..Len(args.collections[1].attributes) :
            args.collections[1].attributes[i] = roleAttribute
    /\ ret.result.ok

enumsOn == Truthy(Get(Spread(Enum_DEFAULT_CONFIG, args.config), "generateEnums"))
pascalStrategy == Get(Spread(Enum_DEFAULT_CONFIG, args.config), "namingStrategy") \in {None, Some("pascal")}

roleFieldRequired(text) ==
    /\ Contains(text, "\n  role: \"admin\" | \"member\";")
    /\ ~Contains(text, "role?")

roleMembers(text) ==
    /\ Contains(text, "\n  ADMIN = \"admin\",\n")
    /\ Contains(text, "\n  MEMBER = \"member\"\n")

\* C5 as stated: the interface holds the field role: "admin" | "member";
\* without ?, and with enum generation on the enum is named UsersRole with
\* the members ADMIN = "admin" and MEMBER = "member".
C5_AsStated ==
    onUsersWithRole =>
        /\ ret.fn = "generateInterfaces" => roleFieldRequired(ret.result.value)
        /\ (ret.fn = "generateEnumDefinitions" /\ enumsOn /\ pascalStrategy) =>
              /\ Contains(ret.result.value.enumDefinitions, "export enum UsersRole {")
              /\ roleMembers(ret.result.value.enumDefinitions)

\* C5 amended: the interface holds the field role: "admin" | "member";
\* without ?, and with enum generation on the enum is named UserRole (the
\* collection name without its final s) and, under the default pascal naming
\* strategy, has the members ADMIN = "admin" and MEMBER = "member".
C5_UserRoleExample ==
    onUsersWithRole =>
        /\ ret.fn = "generateInterfaces" => roleFieldRequired(ret.result.value)
        /\ (ret.fn = "generateEnumDefinitions" /\ enumsOn) =>
              /\ Contains(ret.result.value.enumDefinitions, "\nexport enum UserRole {\n")
              /\ ~Contains(ret.result.value.enumDefinitions, "UsersRole")
              /\ pascalStrategy => roleMembers(ret.result.value.enumDefinitions)

C5_Witness ==
    /\ ret.fn = "generateEnumDefinitions"
    /\ args = [collections |-> <<[id |-> "c1", name |-> "Users", attributes |-> <<roleAttribute>>]>>,
               config |-> <<>>]
    /\ ret.result.ok
    /\ ret.result.value.enumDefinitions =
          "\n/**\n * Enum representing UserRole\n * Provides type-safe representation of possible values\n */\nexport enum UserRole {\n  /** Represents the admin option */\n  ADMIN = \"admin\",\n  /** Represents the member option */\n  MEMBER = \"member\"\n}\n"

-----------------------------------------------------------------------------
(* Specification of calls to TypesGenerator.formatGeneratedTypes           *)

MaxTextLen == 6
TextAlphabet == {"\n", " ", "x"}

Texts == StringsUpTo(TextAlphabet, MaxTextLen)

InitFormat ==
    /\ \E t \in Texts : args = [generatedTypes |-> t]
    /\ ret = Pending
    /\ NoRun

FormatGeneratedTypes ==
    /\ ret = Pending
    /\ Has(args, "generatedTypes")
    /\ ret' = Returned("formatGeneratedTypes", formatGeneratedTypes(args.generatedTypes))
    /\ UNCHANGED <<args, pipelineVars>>

NextFormat == FormatGeneratedTypes

SpecFormat == InitFormat /\ [][NextFormat]_vars

\* C9: whatever text the earlier stages produced, the finalized text has no
\* run of more than one consecutive blank (empty) line, that is no three
\* consecutive newlines, and ends with exactly one newline.
C9_FinalizedWhitespace ==
    ret.fn = "formatGeneratedTypes" =>
        /\ ~Contains(ret.result, "\n\n\n")
        /\ charAt(ret.result, Len(ret.result)) = "\n"
        /\ charAt(ret.result, Len(ret.result) - 1) # "\n"

C9_Witness ==
    /\ ret.fn = "formatGeneratedTypes"
    /\ args.generatedTypes = "x\n\n\n\nx"
    /\ ret.result = "x\n\nx\n"

-----------------------------------------------------------------------------
(* Properties of TypeConverter.convertToTSType                             *)

converted == ret.fn = "convertToTSType"
validKeyAndType(a) == Has(a, "key") /\ a.key # "" /\ Has(a, "type") /\ a.type # ""
nonEmptyEnum(a) == Has(a, "format") /\ a.format = "enum" /\ Has(a, "elements") /\ a.elements # <<>>

\* the documented cardinality x side table: "array", "nullable" or "fallback"
DocumentedShape(relationType, side) ==
    CASE relationType = "oneToMany" /\ side = "parent" -> "array"
      [] relationType = "oneToMany" /\ side = "child" -> "nullable"
      [] relationType = "manyToOne" /\ side = "parent" -> "nullable"
      [] relationType = "manyToOne" /\ side = "child" -> "array"
      [] relationType \in {"oneToOne", "manyToMany"} -> "array"
      [] OTHER -> "fallback"

RenderShape(shape, name) ==
    CASE shape = "array" -> name \o "[]"
      [] shape = "nullable" -> name \o " | null"
      [] OTHER -> "string | RelationshipReference"

\* C2: an attribute converted on the relationship path (type "relationship",
\* not a non-empty enum, key and relatedCollection present) yields exactly
\* the shape the cardinality x side table documents; an unknown or absent
\* cardinality yields the generic reference fallback and no error.
C2_RelationshipShapes ==
    converted =>
        LET a == args.attribute
        IN  (validKeyAndType(a) /\ a.type = "relationship" /\ ~nonEmptyEnum(a)
             /\ Has(a, "relatedCollection")) =>
                /\ ret.result.ok
                /\ ret.result.value =
                       RenderShape(DocumentedShape(IF Has(a, "relationType") THEN a.relationType ELSE "",
                                                   a.side),
                                   relatedTypeName(a.relatedCollection))

C2_Witness ==
    /\ converted
    /\ args.attribute = [key |-> "author", type |-> "relationship", required |-> FALSE,
                         array |-> FALSE, relatedCollection |-> "blog_posts",
                         relationType |-> "manyToOne", side |-> "parent"]
    /\ ret.result = Ok("BlogPost | null")

\* the primitive table as the documentation states it
DocumentedPrimitive(type) ==
    CASE type \in {"string", "datetime"} -> "string"
      [] type \in {"integer", "float"} -> "number"
      [] type = "boolean" -> "boolean"

DocumentedPrimitives == {"string", "integer", "float", "boolean", "datetime"}

\* C3 as stated: a type in the primitive table always yields the table's
\* expression; any other type always fails with an UnsupportedTypeError
\* naming the type and carrying the attribute key.
C3_AsStated ==
    converted =>
        LET a == args.attribute
        IN  Has(a, "type") =>
                IF a.type \in DocumentedPrimitives
                THEN ret.result.ok /\ ret.result.value = DocumentedPrimitive(a.type)
                ELSE /\ ~ret.result.ok
                     /\ ret.result.error.class = "UnsupportedTypeError"
                     /\ Contains(ret.result.error.message, a.type)
                     /\ Has(a, "key") /\ Contains(ret.result.error.message, a.key)

\* C3 amended: for an attribute with a non-empty key that is not a non-empty
\* enum, a type in the primitive table yields the table's expression (bare
\* when the attribute is not an array, in an array form when it is), and a
\* non-empty type that is neither in the table nor "relationship" always
\* fails with an Error whose message is "Unsupported attribute type: <type>";
\* the message carries the attribute name exactly when the caller passes it
\* in the context.
C3_PrimitiveTableOrUnsupported ==
    converted =>
        LET a == args.attribute
            r == ret.result
        IN  (validKeyAndType(a) /\ ~nonEmptyEnum(a)) =>
                IF a.type \in DocumentedPrimitives
                THEN /\ r.ok
                     /\ IF Has(a, "array") /\ a.array
                        THEN IF Has(a, "elements") /\ a.elements # <<>>
                             THEN r.value = "(" \o quotedUnion(a.elements) \o ")[]"
                             ELSE r.value = "Array<" \o DocumentedPrimitive(a.type) \o ">"
                        ELSE r.value = DocumentedPrimitive(a.type)
                ELSE IF a.type # "relationship"
                THEN /\ ~r.ok
                     /\ r.error.class = "Error"
                     /\ Contains(r.error.message, "Unsupported attribute type: " \o a.type \o " ")
                     /\ IF args.context # None /\ Has(args.context[1], "attributeName")
                        THEN Contains(r.error.message, "attribute " \o args.context[1].attributeName)
                        ELSE ~Contains(r.error.message, a.key)
                ELSE TRUE

C3_Witness ==
    /\ converted
    /\ args.attribute = [key |-> "role", type |-> "email", required |-> TRUE]
    /\ args.context = Some([attributeName |-> "role"])
    /\ ret.result = Throw("Error",
                          "Unsupported attribute type: email in unknown collection, attribute role")

\* C4 as stated: a non-empty enum or a relationship attribute converts
\* without error whatever its other fields are.
C4_AsStated ==
    converted =>
        LET a == args.attribute
        IN  (nonEmptyEnum(a) \/ (Has(a, "type") /\ a.type = "relationship")) => ret.result.ok

\* C4 amended: an attribute with a non-empty key and a non-empty type that is
\* a non-empty enum, or that has type "relationship" and carries a
\* relatedCollection string (possibly empty), converts without error; and
\* every failure is one of: missing or empty key or type, a relationship
\* without relatedCollection, or an unknown primitive type.
C4_OnlyFailingPaths ==
    converted =>
        LET a == args.attribute
            r == ret.result
        IN  /\ (validKeyAndType(a)
                /\ (nonEmptyEnum(a) \/ (a.type = "relationship" /\ Has(a, "relatedCollection"))))
               => r.ok
            /\ ~r.ok =>
                  \/ ~validKeyAndType(a)
                  \/ (a.type = "relationship" /\ ~Has(a, "relatedCollection") /\ ~nonEmptyEnum(a))
                  \/ (a.type \notin DocumentedPrimitives \cup {"relationship"} /\ ~nonEmptyEnum(a))

C4_Witness ==
    /\ converted
    /\ args.attribute = [key |-> "role", type |-> "email", required |-> TRUE,
                         format |-> "enum", elements |-> <<"admin", "member">>]
    /\ ret.result = Ok("\"admin\" | \"member\"")


-----------------------------------------------------------------------------
(* Inputs of a run: schemas, file systems, configurations                  *)

titleAttribute ==
    [key |-> "title", type |-> "string", required |-> TRUE, array |-> FALSE, size |-> 255]

authorAttribute ==
    [key |-> "author", type |-> "relationship", required |-> FALSE, array |-> FALSE,
     relatedCollection |-> "users", relationType |-> "manyToOne", twoWay |-> FALSE,
     side |-> "child", onDelete |-> "cascade"]

usersCollection == [id |-> "c1", name |-> "Users", attributes |-> <<roleAttribute, titleAttribute>>]
\* two collections without attributes: an empty array, and no property
logsCollection == [id |-> "c2", name |-> "Logs", attributes |-> <<>>]
draftsCollection == [id |-> "c3", name |-> "Drafts"]
postsCollection == [id |-> "c4", name |-> "blog_posts", attributes |-> <<authorAttribute>>]
\* a collection whose attribute has a type that cannot be converted
placesCollection ==
    [id |-> "c5", name |-> "Places",
     attributes |-> <<[key |-> "geo", type |-> "point", required |-> FALSE]>>]
\* a collection without a name
namelessCollection == [id |-> "c0", attributes |-> <<roleAttribute>>]

mainDatabase == [id |-> "db1", name |-> "Main DB"]

schemaOf(collections) ==
    JObject([databases |-> JArray(<<mainDatabase>>), collections |-> JArray(collections)])

richSchema == schemaOf(<<usersCollection, logsCollection, postsCollection, draftsCollection>>)

\* what the input file may hold
Schemas ==
    {richSchema,
     schemaOf(<<usersCollection>>), schemaOf(<<logsCollection>>), schemaOf(<<>>),
     schemaOf(<<logsCollection, postsCollection>>),
     schemaOf(<<usersCollection, placesCollection>>), schemaOf(<<namelessCollection>>),
     JObject([collections |-> JArray(<<postsCollection, draftsCollection>>)]),
     JObject([databases |-> JObject(<<>>), collections |-> JArray(<<usersCollection>>)]),
     JObject([databases |-> JArray(<<mainDatabase>>)]),
     JObject([collections |-> JNull]), JObject([collections |-> JObject(<<>>)]),
     JObject([collections |-> JNumber]), JArray(<<>>), JNull, JNumber, Malformed}

InputPath == "appwrite.json"
OutputPath == "types.ts"

\* the file system holding the input file with this content
withInput(content) == [p \in {resolve(InputPath)} |-> content]
NoFiles == <<>>

Timestamp == "2024-05-01T10:00:00.000Z"

EnvOf(files, writable) == [files |-> files, writable |-> writable, now |-> Timestamp]

paths == [inputPath |-> Some(Some(InputPath)), outputPath |-> Some(Some(OutputPath))]

\* the paths with the options given
configWith(options) == Obj(Spread(paths, options))

Transformers == {"banner", "footer", "count", "throwsError", "throwsGeneratorError", "throwsString"}

TransformerLists ==
    {<<>>, <<"banner">>, <<"banner", "footer">>, <<"footer", "banner">>, <<"count", "count">>,
     <<"throwsError">>, <<"banner", "throwsGeneratorError", "footer">>, <<"throwsString">>,
     <<"footer", "count", "throwsError", "banner">>}

\* a sub-configuration that is absent, or sets its fields to undefined, or to values
EnumSubConfigs ==
    {Obj([generateEnums |-> g, generateUnionTypes |-> u, namingStrategy |-> n]) :
        g \in {None, Some(None), Some(Some(FALSE))}, u \in {None, Some(None), Some(Some(FALSE))},
        n \in {None, Some(Some("camel"))}}

InterfaceSubConfigs ==
    {Obj([includeMetadata |-> m, optionalMetadata |-> o, interfacePrefix |-> p]) :
        m \in {None, Some(None), Some(Some(FALSE))}, o \in {None, Some(None), Some(Some(FALSE))},
        p \in {None, Some(None), Some(Some("I"))}}

IDConstantsSubConfigs ==
    {Obj([generateDatabaseConstants |-> d, generateCollectionConstants |-> c,
          includeComments |-> i, constantPrefix |-> p]) :
        d \in {None, Some(None), Some(Some(FALSE))}, c \in {None, Some(None), Some(Some(FALSE))},
        i \in {None, Some(None)}, p \in {None, Some(None)}}

TopLevelFlags ==
    {Obj([generateEnums |-> e, generateInterfaces |-> i, generateDatabaseConstants |-> d,
          generateCollectionConstants |-> c]) :
        e \in {None, Some(Some(FALSE))}, i \in {None, Some(Some(FALSE))},
        d \in {None, Some(Some(FALSE))}, c \in {None, Some(Some(FALSE))}}

\* the sub-configuration that sets both constant flags to undefined
tablesConfig == [generateDatabaseConstants |-> None, generateCollectionConstants |-> None]

\* the configurations handed to generateTypes: one option varied at a time
GeneratorConfigs ==
    {configWith(<<>>)}
    \cup {configWith([transformers |-> Some(Some(t))]) : t \in TransformerLists}
    \cup {configWith([transformers |-> Some(None)])}
    \cup {configWith([enumConfig |-> Some(Some(c))]) : c \in EnumSubConfigs}
    \cup {configWith([interfaceConfig |-> Some(Some(c))]) : c \in InterfaceSubConfigs}
    \cup {configWith([idConstantsConfig |-> Some(Some(c))]) : c \in IDConstantsSubConfigs}
    \cup {configWith([enumConfig |-> Some(None), interfaceConfig |-> Some(None),
                      idConstantsConfig |-> Some(None)])}
    \cup {configWith([k \in DOMAIN f |-> Some(f[k])]) : f \in TopLevelFlags}
    \cup {configWith(Spread([k \in DOMAIN f |-> Some(f[k])],
                             [idConstantsConfig |-> Some(Some(tablesConfig))])) :
            f \in TopLevelFlags}

\* configurations that lack a path
PathlessConfigs ==
    {<<>>, Obj([inputPath |-> Some(Some(InputPath))]), Obj([outputPath |-> Some(Some(OutputPath))]),
     [inputPath |-> Some(""), outputPath |-> Some(OutputPath)],
     [inputPath |-> Some(InputPath), outputPath |-> None]}

\* the runs of generateTypes(config): config may be omitted
GenerateTypesRuns ==
    {[args |-> [entry |-> "generateTypes", config |-> Some(c)],
      env |-> EnvOf(withInput(richSchema), TRUE)] : c \in GeneratorConfigs \cup PathlessConfigs}
    \cup {[args |-> [entry |-> "generateTypes", config |-> None],
           env |-> EnvOf(withInput(richSchema), TRUE)]}
    \cup {[args |-> [entry |-> "generateTypes", config |-> Some(c)], env |-> EnvOf(f, w)] :
            c \in {configWith(<<>>), configWith([idConstantsConfig |-> Some(Some(tablesConfig))]),
                   configWith([transformers |-> Some(Some(<<"count", "footer">>))])},
            f \in {withInput(s) : s \in Schemas} \cup {NoFiles}, w \in BOOLEAN}

ConfigFile == "./appwrite-types.config.json"

\* the file systems a run of the CLI meets: the input file at the default
\* path, with or without a configuration file
CliFiles ==
    {[p \in {"/cwd/appwrite.json"} |-> s] : s \in {richSchema, schemaOf(<<logsCollection>>), Malformed,
                                                  JObject([collections |-> JNull])}}
    \cup {[p \in {"/cwd/appwrite.json", resolve(ConfigFile)} |->
              IF p = "/cwd/appwrite.json" THEN richSchema ELSE c] :
            c \in {Malformed, JNull, JObject([outputPath |-> "lib/types.ts", generateEnums |-> FALSE]),
                   JObject([inputPath |-> "schema.json"]),
                   JObject([generateDatabaseConstants |-> FALSE,
                            generateCollectionConstants |-> FALSE, unknownKey |-> TRUE])}}
    \cup {[p \in {"/cwd/my.json", "/cwd/schema.json"} |->
              IF p = "/cwd/my.json" THEN JObject([inputPath |-> "schema.json"])
              ELSE schemaOf(<<usersCollection>>)],
          NoFiles}

\* program.opts(): the --no- options are true unless given
CliOptions ==
    [config : {None, Some("my.json")}, output : {None, Some("out/types.ts")},
     enums : BOOLEAN, interfaces : BOOLEAN, database : BOOLEAN, collections : BOOLEAN]

CliRuns ==
    {[args |-> [entry |-> "CLI.run", options |-> o], env |-> EnvOf(f, TRUE)] :
        o \in {x \in CliOptions : x.config = None /\ x.output = None}, f \in CliFiles}
    \cup {[args |-> [entry |-> "CLI.run", options |-> o], env |-> EnvOf(f, w)] :
            o \in {x \in CliOptions : x.enums /\ x.interfaces /\ x.database /\ x.collections},
            f \in CliFiles, w \in BOOLEAN}

-----------------------------------------------------------------------------
(* Specification of the runs of generateTypes and CLI.run                  *)

InitPipeline ==
    /\ \E run \in GenerateTypesRuns \cup CliRuns : args = run.args /\ env = run.env
    /\ ret = Pending
    /\ pc = "start"
    /\ cliConfig = None /\ generator = None /\ schema = None
    /\ processableCollections = None /\ generated = None /\ thrown = None /\ outcome = None
    /\ trace = <<>> /\ writes = <<>>

\* generate()'s catch block: the stage threw error, and generate() throws
\* what handleGenerationError makes of it; cause is the error that was
\* raised first, which the stage may have wrapped into error
CaughtFrom(stage, cause, error) ==
    /\ thrown' = Some([stage |-> stage, cause |-> cause, error |-> error])
    /\ outcome' = Some(handleGenerationError(error))
    /\ pc' = "settled"

Caught(stage, error) ==
    /\ thrown' = Some([stage |-> stage, cause |-> error, error |-> error])
    /\ outcome' = Some(handleGenerationError(error))
    /\ pc' = "settled"

\* generateTypes line 304: new TypesGenerator(config || {})
GenerateTypesConstruct ==
    /\ pc = "start" /\ args.entry = "generateTypes"
    /\ generator' = Some(TypesGenerator(IF args.config = None THEN <<>> ELSE args.config[1]))
    /\ pc' = "constructed"
    /\ UNCHANGED <<args, ret, env, cliConfig, schema, processableCollections, generated,
                   thrown, outcome, trace, writes>>

\* what CLI.run's config is at line 52
cliConfigOf(files, options) == overrideConfig(loadConfig(files, options.config), options)

\* CLI.run lines 39-55: the options, the configuration, the input file's
\* existence, the generator
CliConstruct ==
    /\ pc = "start" /\ args.entry = "CLI.run"
    /\ cliConfig' = Some(cliConfigOf(env.files, args.options))
    /\ IF validateFileExists(env.files, cliConfig'[1].inputPath).ok
       THEN /\ generator' = Some(TypesGenerator(asGeneratorConfig(cliConfig'[1])))
            /\ pc' = "constructed"
            /\ ret' = ret
       ELSE /\ ret' = Returned("CLI.run",
                        cliFailure(validateFileExists(env.files, cliConfig'[1].inputPath).error))
            /\ pc' = "done"
            /\ generator' = generator
    /\ UNCHANGED <<args, env, schema, processableCollections, generated, thrown, outcome,
                   trace, writes>>

ValidateConfiguration ==
    /\ pc = "constructed"
    /\ IF validateConfiguration(generator[1]).ok
       THEN pc' = "validated" /\ UNCHANGED <<thrown, outcome>>
       ELSE Caught("Validate", validateConfiguration(generator[1]).error)
    /\ UNCHANGED <<args, ret, env, cliConfig, generator, schema, processableCollections,
                   generated, trace, writes>>

ReadInputConfiguration ==
    /\ pc = "validated"
    /\ \E read \in {parseRead(readFile(env.files, generator[1].inputPath[1]))} :
          IF read.ok
          THEN schema' = Some(read.value) /\ pc' = "loaded" /\ UNCHANGED <<thrown, outcome>>
          ELSE CaughtFrom("Load", read.error, readFailure(read).error) /\ schema' = schema
    /\ UNCHANGED <<args, ret, env, cliConfig, generator, processableCollections, generated,
                   trace, writes>>

ExtractProcessableCollections ==
    /\ pc = "loaded"
    /\ \E collections \in {extractProcessableCollections(schema[1])} :
          IF collections.ok
          THEN /\ processableCollections' = Some(collections.value)
               /\ pc' = "extracted" /\ UNCHANGED <<thrown, outcome>>
          ELSE Caught("Extract", collections.error)
               /\ processableCollections' = processableCollections
    /\ UNCHANGED <<args, ret, env, cliConfig, generator, schema, generated, trace, writes>>

GenerateInitialTypes ==
    /\ pc = "extracted"
    /\ \E enums \in {enumsOf(processableCollections[1], generator[1])},
          interfaces \in {interfacesOf(processableCollections[1], generator[1])},
          constants \in {constantsOf(schema[1], generator[1])} :
          /\ trace' = trace \o [i \in 1..Len(generatorsCalled(enums, interfaces)) |->
                                   [op |-> generatorsCalled(enums, interfaces)[i]]]
          /\ \E generatedTypes \in {initialTypes(header(env.now), enums, interfaces, constants)} :
                IF generatedTypes.ok
                THEN /\ generated' = Some(generatedTypes.value)
                     /\ pc' = "generated" /\ UNCHANGED <<thrown, outcome>>
                ELSE Caught("Generate", generatedTypes.error) /\ generated' = generated
    /\ UNCHANGED <<args, ret, env, cliConfig, generator, schema, processableCollections, writes>>

\* the transformer calls made so far
transformerCalls(calls) == SelectSeq(calls, LAMBDA call : call.op = "transformer")

\* a reduce that takes the transformers from the last to the first
ApplyTransformer_reversed ==
    /\ pc = "generated"
    /\ Len(transformerCalls(trace)) < Len(generator[1].transformers[1])
    /\ \E call \in {[op |-> "transformer",
                     transformer |-> generator[1].transformers[1][
                         Len(generator[1].transformers[1]) - Len(transformerCalls(trace))],
                     types |-> generated[1],
                     context |-> [inputConfig |-> schema[1],
                                  collections |-> processableCollections[1]]]} :
          /\ trace' = Append(trace, call)
          /\ \E types \in {applyTransformer(call.transformer, call.types, call.context)} :
                IF types.ok
                THEN generated' = Some(types.value) /\ UNCHANGED <<pc, thrown, outcome>>
                ELSE Caught("Transform", types.error) /\ generated' = generated
    /\ UNCHANGED <<args, ret, env, cliConfig, generator, schema, processableCollections, writes>>

\* applyCustomTransformations: one step of the reduce, the call of the next
\* transformer with the text so far and the context
ApplyTransformer ==
    /\ pc = "generated"
    /\ Len(transformerCalls(trace)) < Len(generator[1].transformers[1])
    /\ \E call \in {[op |-> "transformer",
                     transformer |-> generator[1].transformers[1][Len(transformerCalls(trace)) + 1],
                     types |-> generated[1],
                     context |-> [inputConfig |-> schema[1],
                                  collections |-> processableCollections[1]]]} :
          /\ trace' = Append(trace, call)
          /\ \E types \in {applyTransformer(call.transformer, call.types, call.context)} :
                IF types.ok
                THEN generated' = Some(types.value) /\ UNCHANGED <<pc, thrown, outcome>>
                ELSE Caught("Transform", types.error) /\ generated' = generated
    /\ UNCHANGED <<args, ret, env, cliConfig, generator, schema, processableCollections, writes>>

\* generate() line 132: the reduce is over, the formatted text is returned
FormatGeneratedTypes_Return ==
    /\ pc = "generated"
    /\ Len(transformerCalls(trace)) = Len(generator[1].transformers[1])
    /\ trace' = Append(trace, [op |-> "formatGeneratedTypes", types |-> generated[1]])
    /\ outcome' = Some(Ok(formatGeneratedTypes(generated[1])))
    /\ pc' = "settled"
    /\ UNCHANGED <<args, ret, env, cliConfig, generator, schema, processableCollections,
                   generated, thrown, writes>>

\* one call of FileSystemUtils.writeFile and its result
WriteFile(filePath, content) ==
    writes' = Append(writes, [path |-> resolve(filePath), content |-> content,
                              written |-> writeFile(env.writable, filePath).ok])

\* generateTypes lines 310-317
GenerateTypesWrite ==
    /\ pc = "settled" /\ args.entry = "generateTypes" /\ outcome[1].ok
    /\ IF args.config # None /\ ~isBlank(Get(args.config[1], "outputPath"))
       THEN /\ WriteFile(args.config[1].outputPath[1], outcome[1].value)
            /\ ret' = Returned("generateTypes",
                        IF writeFile(env.writable, args.config[1].outputPath[1]).ok
                        THEN outcome[1]
                        ELSE generateTypesFailure(
                                 writeFile(env.writable, args.config[1].outputPath[1]).error))
       ELSE /\ writes' = writes
            /\ ret' = Returned("generateTypes", outcome[1])
    /\ pc' = "done"
    /\ UNCHANGED <<args, env, cliConfig, generator, schema, processableCollections, generated,
                   thrown, outcome, trace>>

\* a catch block that saves what had been generated when generate() threw
GenerateTypesCatch_savesPartial ==
    /\ pc = "settled" /\ args.entry = "generateTypes" /\ ~outcome[1].ok
    /\ ret' = Returned("generateTypes", generateTypesFailure(outcome[1].error))
    /\ writes' = IF generated = None THEN writes
                 ELSE Append(writes, [path |-> resolve(OutputPath), content |-> generated[1],
                                      written |-> TRUE])
    /\ pc' = "done"
    /\ UNCHANGED <<args, env, cliConfig, generator, schema, processableCollections, generated,
                   thrown, outcome, trace>>

\* generateTypes lines 318-328: generate() threw
GenerateTypesCatch ==
    /\ pc = "settled" /\ args.entry = "generateTypes" /\ ~outcome[1].ok
    /\ ret' = Returned("generateTypes", generateTypesFailure(outcome[1].error))
    /\ pc' = "done"
    /\ UNCHANGED <<args, env, cliConfig, generator, schema, processableCollections, generated,
                   thrown, outcome, trace, writes>>

\* CLI.run lines 59-64
CliWrite ==
    /\ pc = "settled" /\ args.entry = "CLI.run" /\ outcome[1].ok
    /\ WriteFile(resolve(cliConfig[1].outputPath), outcome[1].value)
    /\ ret' = Returned("CLI.run",
                IF writeFile(env.writable, resolve(cliConfig[1].outputPath)).ok
                THEN cliSuccess(cliConfig[1].outputPath)
                ELSE cliFailure(writeFile(env.writable, resolve(cliConfig[1].outputPath)).error))
    /\ pc' = "done"
    /\ UNCHANGED <<args, env, cliConfig, generator, schema, processableCollections, generated,
                   thrown, outcome, trace>>

\* CLI.run lines 65-72: generate() threw
CliCatch ==
    /\ pc = "settled" /\ args.entry = "CLI.run" /\ ~outcome[1].ok
    /\ ret' = Returned("CLI.run", cliFailure(outcome[1].error))
    /\ pc' = "done"
    /\ UNCHANGED <<args, env, cliConfig, generator, schema, processableCollections, generated,
                   thrown, outcome, trace, writes>>

NextPipeline ==
    \/ GenerateTypesConstruct
    \/ CliConstruct
    \/ ValidateConfiguration
    \/ ReadInputConfiguration
    \/ ExtractProcessableCollections
    \/ GenerateInitialTypes
    \/ ApplyTransformer
    \/ FormatGeneratedTypes_Return
    \/ GenerateTypesWrite
    \/ GenerateTypesCatch
    \/ CliWrite
    \/ CliCatch

SpecPipeline == InitPipeline /\ [][NextPipeline]_vars

-----------------------------------------------------------------------------
(* Properties of the errors of generate()                                  *)

threw(stages) == thrown # None /\ thrown[1].stage \in stages

\* C6 as stated: an error that a transformer raises during the Transform
\* stage surfaces from generate() unchanged, the same value of the same
\* class, and is not wrapped into the domain error.
C6_AsStated == threw({"Transform"}) => outcome[1] = [ok |-> FALSE, error |-> thrown[1].error]

\* C6 amended: an error that a transformer raises during the Transform stage
\* surfaces from generate() unchanged only when it is a GeneratorError; any
\* other value thrown is wrapped into a GeneratorError whose message is
\* "Unexpected error during type generation: " followed by its message.
C6_TransformErrorsWrapped ==
    threw({"Transform"}) =>
        IF isGeneratorError(thrown[1].error)
        THEN outcome[1] = [ok |-> FALSE, error |-> thrown[1].error]
        ELSE outcome[1] = GeneratorError("Unexpected error during type generation: "
                                         \o thrown[1].error.message)

C6_Witness ==
    /\ threw({"Transform"})
    /\ thrown[1].error = [class |-> "Error", message |-> "transformer failed"]
    /\ outcome[1] = GeneratorError("Unexpected error during type generation: transformer failed")
    /\ trace[Len(trace)].op = "transformer" /\ trace[Len(trace)].transformer = "throwsError"

\* C7: every error raised during Load (reading the input file, parsing its
\* JSON) or Generate (the enum, interface and constant generators) surfaces
\* from generate() as a GeneratorError whose message contains the message of
\* the error that was raised.
C7_DomainErrorWithCause ==
    threw({"Load", "Generate"}) =>
        /\ ~outcome[1].ok
        /\ outcome[1].error.class = "GeneratorError"
        /\ Contains(outcome[1].error.message, thrown[1].cause.message)

\* a run whose input file is no JSON document
C7_Witness ==
    /\ threw({"Load"})
    /\ thrown[1].cause = [class |-> "SyntaxError", message |-> "Unexpected end of JSON input"]
    /\ outcome[1] = GeneratorError("Failed to read or parse input configuration: Unexpected end of JSON input")

\* generate() returned the final text: every stage completed
completed ==
    /\ thrown = None
    /\ schema # None /\ processableCollections # None /\ generated # None
    /\ Len(transformerCalls(trace)) = Len(generator[1].transformers[1])
    /\ trace[Len(trace)] = [op |-> "formatGeneratedTypes", types |-> generated[1]]
    /\ outcome = Some(Ok(formatGeneratedTypes(generated[1])))

\* C8: in every run of generateTypes or CLI.run the file writer is called at
\* most once, and only after Load, Generate, Transform and Finalize have all
\* completed, with the complete final text; when a stage has failed the
\* writer is never called.
C8_WriteOnceAfterSuccess ==
    /\ Len(writes) <= 1
    /\ writes # <<>> => completed /\ writes[1].content = outcome[1].value
    /\ thrown # None => writes = <<>>

\* a run of generateTypes that wrote its types after two transformers
C8_Witness ==
    /\ pc = "done" /\ args.entry = "generateTypes" /\ ret.result.ok
    /\ generator[1].transformers = Some(<<"banner", "footer">>)
    /\ Len(writes) = 1
    /\ writes[1] = [path |-> "/cwd/types.ts", content |-> ret.result.value, written |-> TRUE]

-----------------------------------------------------------------------------
(* Properties of the generated text                                        *)

\* generate() returned a text
succeeded == outcome # None /\ outcome[1].ok

schemaCollections == schema[1].fields.collections.items

\* the declaration that opens the interface of a collection
interfaceOpening(collection) ==
    "export interface "
    \o generateInterfaceName(collection.name, generator[1].interfaceConfig[1].interfacePrefix,
                             generator[1].interfaceConfig[1].interfaceSuffix)
    \o " {"

\* the collection has at least one attribute
hasAttributes(collection) == Has(collection, "attributes") /\ collection.attributes # <<>>

\* no interface is derived from the collection
noInterfaceOf(text, collection) ==
    /\ ~Contains(text, interfaceOpening(collection))
    /\ ~Contains(text, "Represents a " \o collection.name \o " document")

\* C11 as stated: nothing in the generated text is derived from a collection
\* without attributes, neither an interface nor an identifier constant (it
\* has no enum attribute to derive an enum or union type from), while every
\* collection with an attribute has its interface.
C11_AsStated ==
    succeeded =>
        \A i \in 1..Len(schemaCollections) :
            IF hasAttributes(schemaCollections[i])
            THEN Contains(outcome[1].value, interfaceOpening(schemaCollections[i]))
            ELSE /\ noInterfaceOf(outcome[1].value, schemaCollections[i])
                 /\ ~Contains(outcome[1].value, "'" \o schemaCollections[i].id \o "'")

\* C11 amended: no interface (and so no enum or union type) is derived from
\* a collection without attributes, while every collection with an attribute
\* has its interface; the identifier constants are derived from the whole
\* schema, and a COLLECTION_IDS table in the text holds the identifier of
\* every collection, those without attributes included.
C11_SkippedExceptConstants ==
    succeeded =>
        \A i \in 1..Len(schemaCollections) :
            /\ IF hasAttributes(schemaCollections[i])
               THEN Contains(outcome[1].value, interfaceOpening(schemaCollections[i]))
               ELSE noInterfaceOf(outcome[1].value, schemaCollections[i])
            /\ Contains(outcome[1].value, "export const COLLECTION_IDS = {")
                  => Contains(outcome[1].value, ": '" \o schemaCollections[i].id \o "',")

\* the schema with two collections without attributes, generated with the
\* constant tables
C11_Witness ==
    /\ succeeded
    /\ schema = Some(richSchema)
    /\ Get(generator[1].idConstantsConfig[1], "generateCollectionConstants") = None
    /\ Contains(outcome[1].value, "export interface User {")
    /\ Contains(outcome[1].value, "export interface BlogPost {")
    /\ ~Contains(outcome[1].value, "export interface Log {")
    /\ ~Contains(outcome[1].value, "export interface Draft {")
    /\ Contains(outcome[1].value, "  LOGS: 'c2',")
    /\ Contains(outcome[1].value, "  DRAFTS: 'c3',")

\* the positions at which sub occurs in text
occurrences(text, sub) ==
    {i \in 1..(Len(text) - Len(sub) + 1) : SubSeq(text, i, i + Len(sub) - 1) = sub}

\* every occurrence of the first marker is ahead of every occurrence of the second
allBefore(text, first, second) ==
    \A i \in occurrences(text, first) : \A j \in occurrences(text, second) : i < j

\* what opens the declarations of each section, in the documented order
SectionMarkers ==
    <<"// Auto-generated Appwrite Types", "export type ", "export enum ", "export interface ",
      "export const ">>

\* the text that generateInitialTypes returned is held, no transformer has run
generatedOnly == generated # None /\ transformerCalls(trace) = <<>>

\* C12: the text of the Generate stage holds its sections in the order
\* header comment, union-type aliases, enum declarations, interface
\* declarations, identifier-constant tables: no declaration of a section is
\* ahead of one of a section that precedes it, and the header opens the text.
C12_SectionOrder ==
    generatedOnly =>
        /\ StartsWith(generated[1], header(env.now))
        /\ \A a \in 1..Len(SectionMarkers) : \A b \in (a + 1)..Len(SectionMarkers) :
              allBefore(generated[1], SectionMarkers[a], SectionMarkers[b])

\* a text that holds all five sections
C12_Witness ==
    /\ generatedOnly
    /\ schema = Some(richSchema)
    /\ \A a \in 1..Len(SectionMarkers) : Contains(generated[1], SectionMarkers[a])
    /\ Contains(generated[1], "export type UserRoleType = \"admin\" | \"member\";\n\n\n/**\n * Enum representing UserRole")

-----------------------------------------------------------------------------
(* Properties of the Transform stage                                       *)

\* the text that the Generate stage handed on
generateStageText ==
    generateInitialTypes(processableCollections[1], schema[1], generator[1], env.now).value

\* what the call returned
returnOf(call) == applyTransformer(call.transformer, call.types, call.context).value

\* the text after the calls: the Generate stage's, or what the last call returned
textAfter(calls) == IF calls = <<>> THEN generateStageText ELSE returnOf(calls[Len(calls)])

finalizeCalls == SelectSeq(trace, LAMBDA call : call.op = "formatGeneratedTypes")

\* C13: the transformers are called in the order of the configured list,
\* each once; the first receives the text of the Generate stage and each
\* later one what the one before it returned; each receives the parsed
\* schema and the processable collections as context; and Finalize receives
\* what the last one returned.
C13_TransformersInOrder ==
    generated # None =>
        /\ Len(transformerCalls(trace)) <= Len(generator[1].transformers[1])
        /\ \A i \in 1..Len(transformerCalls(trace)) :
              /\ transformerCalls(trace)[i].transformer = generator[1].transformers[1][i]
              /\ transformerCalls(trace)[i].types = textAfter(SubSeq(transformerCalls(trace), 1, i - 1))
              /\ transformerCalls(trace)[i].context =
                    [inputConfig |-> schema[1], collections |-> processableCollections[1]]
        /\ Len(finalizeCalls) <= 1
        /\ \A i \in 1..Len(finalizeCalls) :
              /\ Len(transformerCalls(trace)) = Len(generator[1].transformers[1])
              /\ trace[Len(trace)] = finalizeCalls[i]
              /\ finalizeCalls[i].types = textAfter(transformerCalls(trace))

\* a run through the transformers footer and banner
C13_Witness ==
    /\ succeeded
    /\ generator[1].transformers = Some(<<"footer", "banner">>)
    /\ Len(trace) = 6
    /\ trace[4].op = "transformer" /\ trace[4].transformer = "footer"
    /\ trace[4].types = generateStageText
    /\ trace[5].op = "transformer" /\ trace[5].transformer = "banner"
    /\ trace[5].types = generateStageText \o "\n\n\n\n// footer\n\n"
    /\ trace[6] = [op |-> "formatGeneratedTypes", types |-> "// banner\n" \o trace[5].types]

-----------------------------------------------------------------------------
(* Properties of the schema's collections                                  *)

\* the parsed schema has no collections sequence: the property is absent,
\* null or no array (a schema that is no object has no property)
lacksCollections(inputConfig) ==
    \/ inputConfig.json # "object"
    \/ ~Has(inputConfig.fields, "collections")
    \/ inputConfig.fields.collections.json # "array"

\* C14: when the parsed schema has no collections sequence, generate() fails
\* with a GeneratorError, and neither a generator nor a transformer is run.
C14_NoCollectionsIsFatal ==
    (schema # None /\ lacksCollections(schema[1])) =>
        /\ trace = <<>>
        /\ processableCollections = None /\ generated = None
        /\ pc \in {"loaded", "settled", "done"}
        /\ pc # "loaded" =>
              /\ ~outcome[1].ok /\ outcome[1].error.class = "GeneratorError"
              /\ schema[1].json = "object" =>
                    outcome[1] = GeneratorError("No collections found in input configuration")

\* a schema whose collections property is null
C14_Witness ==
    /\ schema = Some(JObject([collections |-> JNull]))
    /\ pc = "done" /\ args.entry = "generateTypes"
    /\ thrown = Some([stage |-> "Extract",
                      cause |-> [class |-> "GeneratorError",
                                 message |-> "No collections found in input configuration"],
                      error |-> [class |-> "GeneratorError",
                                 message |-> "No collections found in input configuration"]])
    /\ ret.result = GeneratorError("No collections found in input configuration")
    /\ trace = <<>> /\ writes = <<>>

-----------------------------------------------------------------------------
(* Properties of the configuration                                         *)

\* the configuration handed to TypesGenerator sets the top-level flag to false
flagOff(name) == Get(generator[1], name) = Some(FALSE)

\* C15: a top-level generation flag set to false in the configuration handed
\* to TypesGenerator removes its section from the generated text:
\* generateEnums the enum declarations, generateInterfaces the interface
\* declarations, generateDatabaseConstants the DATABASE_IDS table and
\* generateCollectionConstants the COLLECTION_IDS table.
C15_TopLevelFlagsRemoveSections ==
    succeeded =>
        /\ flagOff("generateEnums") => ~Contains(outcome[1].value, "export enum ")
        /\ flagOff("generateInterfaces") => ~Contains(outcome[1].value, "export interface ")
        /\ flagOff("generateDatabaseConstants") => ~Contains(outcome[1].value, "DATABASE_IDS")
        /\ flagOff("generateCollectionConstants") => ~Contains(outcome[1].value, "COLLECTION_IDS")

-----------------------------------------------------------------------------
(* Properties of the interface generator                                   *)

interfacesGenerated == ret.fn = "generateInterfaces" /\ ret.result.ok

\* the value of an option of the interface configuration: the documented
\* default true when the caller leaves it out
interfaceOption(name) ==
    IF args.config = None \/ ~Has(args.config[1], name) THEN Some(TRUE) ELSE args.config[1][name]

\* the six metadata fields and their types
MetadataFields ==
    {<<"$id", "string">>, <<"$createdAt", "string">>, <<"$updatedAt", "string">>,
     <<"$databaseId", "string">>, <<"$collectionId", "string">>, <<"$permissions", "string[]">>}

\* how many interface bodies hold the field, with the marker or without it
bodiesWith(text, field, marker) ==
    Cardinality(occurrences(text, "\n  " \o field[1] \o marker \o ": " \o field[2] \o ";\n"))

\* C16: every interface body holds the six metadata fields if and only if
\* includeMetadata is true, and then either each of the six carries the
\* optional marker ? (optionalMetadata true) or none does.
C16_MetadataFields ==
    interfacesGenerated =>
        \A field \in MetadataFields :
            IF interfaceOption("includeMetadata") = Some(TRUE)
            THEN IF interfaceOption("optionalMetadata") = Some(TRUE)
                 THEN /\ bodiesWith(ret.result.value, field, "?") = Len(args.collections)
                      /\ bodiesWith(ret.result.value, field, "") = 0
                 ELSE /\ bodiesWith(ret.result.value, field, "") = Len(args.collections)
                      /\ bodiesWith(ret.result.value, field, "?") = 0
            ELSE /\ bodiesWith(ret.result.value, field, "?") = 0
                 /\ bodiesWith(ret.result.value, field, "") = 0

\* two interfaces with required metadata
C16_Witness ==
    /\ interfacesGenerated
    /\ Len(args.collections) = 2
    /\ args.config = Some([optionalMetadata |-> Some(FALSE)])
    /\ \A field \in MetadataFields : bodiesWith(ret.result.value, field, "") = 2

\* text.split('\n')
RECURSIVE splitLines(_)
splitLines(text) ==
    IF ~Contains(text, "\n") THEN <<text>>
    ELSE LET i == CHOOSE j \in 1..Len(text) :
                      charAt(text, j) = "\n" /\ \A k \in 1..(j - 1) : charAt(text, k) # "\n"
         IN  <<SubSeq(text, 1, i - 1)>> \o splitLines(sliceFrom(text, i + 1))

\* a line of an interface body that declares a field of an attribute: it is
\* indented by two spaces and is neither a comment nor a metadata field
isAttributeField(line) ==
    Len(line) > 2 /\ SubSeq(line, 1, 2) = "  " /\ charAt(line, 3) \notin {"/", "$", " "}

\* `key: Type;` with ? after the key unless the attribute is required, Type
\* being what convertToTSType returns for the attribute
fieldOf(attribute) ==
    "  " \o attribute.key
    \o (IF Has(attribute, "required") /\ attribute.required THEN "" ELSE "?")
    \o ": " \o convertToTSType(attribute, Some([attributeName |-> attribute.key])).value \o ";"

RECURSIVE fieldsOf(_)
fieldsOf(collections) ==
    IF collections = <<>> THEN <<>>
    ELSE [i \in 1..Len(Head(collections).attributes) |-> fieldOf(Head(collections).attributes[i])]
         \o fieldsOf(Tail(collections))

\* C17: the interface bodies hold one field for each attribute of their
\* collection and no other, in attribute order, each rendered as key: Type;
\* with ? after the key if and only if the attribute is not required, Type
\* being the result of convertToTSType for the attribute.
C17_OneFieldPerAttribute ==
    interfacesGenerated =>
        SelectSeq(splitLines(ret.result.value), isAttributeField) = fieldsOf(args.collections)

\* an interface with a required and an optional field
C17_Witness ==
    /\ interfacesGenerated
    /\ args.collections =
          <<[id |-> "c1", name |-> "blog_posts",
             attributes |-> <<[key |-> "title", type |-> "string", required |-> TRUE,
                               array |-> FALSE, size |-> 255],
                              [key |-> "post_status", type |-> "string", required |-> FALSE,
                               array |-> TRUE, format |-> "enum",
                               elements |-> <<"in-review", "done">>]>>]>>
    /\ SelectSeq(splitLines(ret.result.value), isAttributeField) =
          <<"  title: string;", "  post_status?: (\"in-review\" | \"done\")[];">>

\* the caller of generateTypes left the option of the sub-configuration
\* unspecified: the sub-configuration or the option is absent or undefined
unspecified(sub, name) ==
    Get(subConfig(args.config[1], sub), name) = None

\* generateTypes was called with a configuration and the rich schema, and
\* generate() returned a text
generatedFromRichSchema ==
    /\ args.entry = "generateTypes" /\ args.config # None
    /\ succeeded /\ schema = Some(richSchema)

\* C18: options left unspecified in the configuration given to TypesGenerator
\* take the documented defaults: enums on, union types on, metadata included
\* and optional, empty prefixes and suffixes, constant comments on; also when
\* a nested sub-configuration sets only some of its options or sets an
\* option to undefined.
C18_DefaultsForUnspecified ==
    generatedFromRichSchema =>
        /\ unspecified("enumConfig", "generateEnums")
              => Contains(outcome[1].value, "export enum UserRole {")
        /\ unspecified("enumConfig", "generateUnionTypes")
              => Contains(outcome[1].value, "export type UserRoleType = ")
        /\ unspecified("interfaceConfig", "includeMetadata")
              => Contains(outcome[1].value, "\n  $id")
        /\ (unspecified("interfaceConfig", "includeMetadata")
            /\ unspecified("interfaceConfig", "optionalMetadata"))
              => Contains(outcome[1].value, "\n  $id?: string;")
        /\ (unspecified("interfaceConfig", "interfacePrefix")
            /\ unspecified("interfaceConfig", "interfaceSuffix"))
              => Contains(outcome[1].value, "export interface User {")
        /\ (unspecified("idConstantsConfig", "includeComments")
            /\ Contains(outcome[1].value, "export const DATABASE_IDS = {"))
              => Contains(outcome[1].value, "/** Database ID for Main DB */")
        /\ (unspecified("idConstantsConfig", "constantPrefix")
            /\ Contains(outcome[1].value, "export const DATABASE_IDS = {"))
              => Contains(outcome[1].value, "\n  MAIN_DB: 'db1',")

-----------------------------------------------------------------------------
(* Specification of calls to EnumGenerator.formatEnumKey                   *)

MaxValueLen == 3
ValueAlphabet == {"a", "B", "7", "-", " ", "_"}
EnumValues == StringsUpTo(ValueAlphabet, MaxValueLen)
NamingStrategies == {"pascal", "camel", "snake"}

InitEnumKey ==
    /\ \E v \in EnumValues, n \in NamingStrategies : args = [value |-> v, strategy |-> n]
    /\ ret = Pending
    /\ NoRun

FormatEnumKey ==
    /\ ret = Pending
    /\ Has(args, "strategy")
    /\ ret' = Returned("formatEnumKey", formatEnumKey(args.value, args.strategy))
    /\ UNCHANGED <<args, pipelineVars>>

NextEnumKey == FormatEnumKey

SpecEnumKey == InitEnumKey /\ [][NextEnumKey]_vars

\* the string of the characters that F gives for the characters of s
mapChars(s, F(_)) == join([i \in 1..Len(s) |-> F(charAt(s, i))], "")

\* a character of the sanitized form: uppercased, _ for what is not alphanumeric
sanitizedChar(c) == IF IsAlnum(c) THEN upperChar(c) ELSE "_"

\* the string with only its first character lowercased
firstLowered(s) == lowerChar(charAt(s, 1)) \o sliceFrom(s, 2)

\* C19: the member identifier of an enum value is, for pascal, the value with
\* every non-alphanumeric character replaced by _ and uppercased; for camel,
\* that sanitized form with only its first character lowercased; for snake,
\* the sanitized form lowercased throughout.
C19_EnumKeyByStrategy ==
    ret.fn = "formatEnumKey" =>
        CASE args.strategy = "pascal" -> ret.result = mapChars(args.value, sanitizedChar)
          [] args.strategy = "camel" ->
                ret.result = firstLowered(mapChars(args.value, sanitizedChar))
          [] args.strategy = "snake" ->
                ret.result = mapChars(args.value, LAMBDA c : lowerChar(sanitizedChar(c)))

C19_Witness ==
    /\ ret.fn = "formatEnumKey"
    /\ args = [value |-> "a-B", strategy |-> "camel"]
    /\ ret.result = "a_B"

-----------------------------------------------------------------------------
(* Specification of calls to extractEnumTypes                              *)

ownerRoleAttribute ==
    [key |-> "role", type |-> "string", required |-> FALSE, format |-> "enum",
     elements |-> <<"owner">>]

EnumAttributes ==
    {roleAttribute, ownerRoleAttribute,
     [key |-> "role", type |-> "string", required |-> FALSE, format |-> "enum",
      elements |-> <<>>],
     [key |-> "user_role", type |-> "string", required |-> FALSE, format |-> "enum"],
     [key |-> "title", type |-> "string", required |-> TRUE, array |-> FALSE, size |-> 255],
     [type |-> "string", required |-> FALSE, format |-> "enum", elements |-> <<"x">>]}

EnumAttributeLists == SeqsUpTo(EnumAttributes, MaxAttributes)

EnumCollections ==
    {[name |-> n, attributes |-> a] : n \in {"Users", "user"}, a \in EnumAttributeLists}
    \cup {[attributes |-> a] : a \in EnumAttributeLists}

ExtractInputs ==
    {<<c>> : c \in EnumCollections}
    \cup {<<c, d>> : c, d \in {e \in EnumCollections : Len(e.attributes) = 1}}

InitExtract ==
    /\ \E c \in ExtractInputs : args = [collections |-> c]
    /\ ret = Pending
    /\ NoRun

ExtractEnumTypes ==
    /\ ret = Pending
    /\ ret' = Returned("extractEnumTypes", extractEnumTypes(args.collections))
    /\ UNCHANGED <<args, pipelineVars>>

NextExtract == ExtractEnumTypes

SpecExtract == InitExtract /\ [][NextExtract]_vars

\* the positions <<collection, attribute>> of the enum attributes that carry
\* at least one value
valuedEnums(collections) ==
    {p \in {<<i, j>> : i \in 1..Len(collections), j \in 1..MaxAttributes + 1} :
        /\ p[2] <= Len(collections[p[1]].attributes)
        /\ LET attr == collections[p[1]].attributes[p[2]]
           IN  /\ "format" \in DOMAIN attr /\ attr.format = "enum"
               /\ "elements" \in DOMAIN attr /\ attr.elements # <<>>}

later(p, q) == p[1] > q[1] \/ (p[1] = q[1] /\ p[2] > q[2])

named(collections, p) ==
    /\ "name" \in DOMAIN collections[p[1]]
    /\ "key" \in DOMAIN collections[p[1]].attributes[p[2]]

qualifiedName(collections, p) ==
    generateTypeName(collections[p[1]].name, collections[p[1]].attributes[p[2]].key)

\* the map holds one entry per distinct qualified name, with the values of
\* the last enum attribute of that name
lastWins(collections, map) ==
    /\ \A i, k \in 1..Len(map) : map[i].key = map[k].key => i = k
    /\ {map[i].key : i \in 1..Len(map)}
           = {qualifiedName(collections, p) : p \in valuedEnums(collections)}
    /\ \A i \in 1..Len(map) :
          \E p \in valuedEnums(collections) :
             /\ qualifiedName(collections, p) = map[i].key
             /\ map[i].value = collections[p[1]].attributes[p[2]].elements
             /\ \A q \in valuedEnums(collections) :
                   qualifiedName(collections, q) = map[i].key => ~later(q, p)

\* C20 as stated: extraction never fails and yields one entry per distinct
\* qualified name, holding the values of the later attribute; an enum
\* attribute with zero values adds no entry.
C20_AsStated ==
    ret.fn = "extractEnumTypes"
    => /\ ret.result.ok
       /\ lastWins(args.collections, ret.result.value)

\* C20: when every collection that holds a valued enum attribute has a name
\* and every such attribute a key, extraction succeeds with one entry per
\* distinct qualified name, each holding the values of the last enum
\* attribute of that name, and an enum attribute with zero values adds
\* nothing; otherwise extraction fails with a TypeError.
C20_LastEnumWins ==
    ret.fn = "extractEnumTypes"
    => IF \A p \in valuedEnums(args.collections) : named(args.collections, p)
       THEN /\ ret.result.ok
            /\ lastWins(args.collections, ret.result.value)
       ELSE /\ ~ret.result.ok
            /\ ret.result.error.class = "TypeError"

\* two collections produce the name UserRole; the entry holds the later values
C20_Witness ==
    /\ ret.fn = "extractEnumTypes"
    /\ args.collections = <<[name |-> "Users", attributes |-> <<roleAttribute>>],
                            [name |-> "user", attributes |-> <<ownerRoleAttribute>>]>>
    /\ ret.result = Ok(<<[key |-> "UserRole", value |-> <<"owner">>]>>)
-----------------------------------------------------------------------------
(* Arrays of primitives in TypeConverter.convertToTSType                   *)

\* "e1" | "e2" | ... for a non-empty list of elements
RECURSIVE literalUnion(_)
literalUnion(elements) ==
    IF Len(elements) = 1 THEN "\"" \o elements[1] \o "\""
    ELSE "\"" \o Head(elements) \o "\" | " \o literalUnion(Tail(elements))

primitiveNotEnum(a) ==
    /\ validKeyAndType(a)
    /\ a.type \in DocumentedPrimitives
    /\ ~nonEmptyEnum(a)

carriesElements(a) == "elements" \in DOMAIN a /\ a.elements # <<>>
arrayFlag(a) == "array" \in DOMAIN a /\ a.array

\* C21: for a primitive-typed attribute that is not an enum, an array with a
\* non-empty element list converts to an array of the literal union of the
\* elements, an array without one to Array<base type>, and a non-array
\* attribute to the bare base type, element list or not.
C21_PrimitiveArrays ==
    (converted /\ primitiveNotEnum(args.attribute))
    => LET a == args.attribute
       IN  /\ ret.result.ok
           /\ ret.result.value =
                 IF arrayFlag(a)
                 THEN IF carriesElements(a)
                      THEN "(" \o literalUnion(a.elements) \o ")[]"
                      ELSE "Array<" \o DocumentedPrimitive(a.type) \o ">"
                 ELSE DocumentedPrimitive(a.type)

\* an integer array with an element list and no enum format was converted
C21_Witness ==
    /\ converted
    /\ args.attribute = [key |-> "role", type |-> "integer", required |-> TRUE, array |-> TRUE,
                         format |-> "email", elements |-> <<"admin", "member">>]
    /\ ret.result = Ok("(\"admin\" | \"member\")[]")
-----------------------------------------------------------------------------
(* FileSystemUtils.deepMerge (file-system.ts)                              *)
(*                                                                         *)
(* Objects live in a heap, a sequence of objects addressed by position; a  *)
(* value is a primitive, an array or the address of an object. An object   *)
(* holds its own enumerable properties in insertion order and its          *)
(* prototype. Address 1 is Object.prototype, which has no enumerable       *)
(* property and whose prototype is null.                                   *)

Undefined == [kind |-> "undefined"]
NullValue == [kind |-> "null"]
NumberValue(n) == [kind |-> "number", n |-> n]
ArrayValue == [kind |-> "array"]
ObjectAt(addr) == [kind |-> "object", addr |-> addr]
ObjectPrototype == ObjectAt(1)

EmptyHeap == <<[props |-> <<>>, proto |-> NullValue]>>

\* item && typeof item === 'object' && !Array.isArray(item)
isObject(item) == item.kind = "object"

hasOwn(obj, key) == \E i \in 1..Len(obj.props) : obj.props[i].key = key

ownValue(obj, key) == obj.props[CHOOSE i \in 1..Len(obj.props) : obj.props[i].key = key].value

\* Object.keys(obj)
ownKeys(obj) == [i \in 1..Len(obj.props) |-> obj.props[i].key]

\* ref[key] on an object whose prototype chain holds no property but the
\* __proto__ accessor of Object.prototype
getProperty(heap, ref, key) ==
    LET obj == heap[ref.addr]
    IN  IF hasOwn(obj, key) THEN ownValue(obj, key)
        ELSE IF key = "__proto__" THEN obj.proto
        ELSE Undefined

\* obj[key] = value: an own property is overwritten in place; the key
\* __proto__ that obj does not own reaches the accessor of Object.prototype,
\* which sets the prototype to an object or null and ignores other values;
\* any other key becomes a new own property
setProperty(obj, key, value) ==
    IF hasOwn(obj, key)
    THEN [obj EXCEPT !.props = [i \in 1..Len(obj.props) |->
                                   IF obj.props[i].key = key
                                   THEN [key |-> key, value |-> value]
                                   ELSE obj.props[i]]]
    ELSE IF key = "__proto__" /\ obj.proto # NullValue
    THEN IF value.kind \in {"object", "array", "null"}
         THEN [obj EXCEPT !.proto = value]
         ELSE obj
    ELSE [obj EXCEPT !.props = Append(obj.props, [key |-> key, value |-> value])]

\* output[key] = value for the object at address out
assign(heap, out, key, value) ==
    [heap EXCEPT ![out.addr] = setProperty(heap[out.addr], key, value)]

\* { ...target }: a new object with the own enumerable properties of target
shallowCopy(heap, target) ==
    [props |-> IF isObject(target) THEN heap[target.addr].props ELSE <<>>,
     proto |-> ObjectPrototype]

RECURSIVE deepMerge(_, _, _)
RECURSIVE mergeKeys(_, _, _, _, _)

\* a merge that writes into target instead of a copy of it
deepMerge_inPlace(heap, target, source) ==
    IF isObject(target) /\ isObject(source)
    THEN mergeKeys(heap, target, target, source, ownKeys(heap[source.addr]))
    ELSE [heap |-> heap, value |-> target]

\* Object.keys(source).forEach(key => ...) over the keys still to visit
mergeKeys(heap, output, target, source, keys) ==
    IF keys = <<>> THEN [heap |-> heap, value |-> output]
    ELSE LET key == Head(keys)
             sourceValue == getProperty(heap, source, key)
             targetValue == getProperty(heap, target, key)
         IN  IF isObject(sourceValue) /\ isObject(targetValue)
             THEN LET merged == deepMerge(heap, targetValue, sourceValue)
                  IN  mergeKeys(assign(merged.heap, output, key, merged.value),
                                output, target, source, Tail(keys))
             ELSE mergeKeys(assign(heap, output, key, sourceValue),
                            output, target, source, Tail(keys))

\* the heap after the call and the value returned
deepMerge(heap, target, source) ==
    LET copied == Append(heap, shallowCopy(heap, target))
        output == ObjectAt(Len(copied))
    IN  IF isObject(target) /\ isObject(source)
        THEN mergeKeys(copied, output, target, source, ownKeys(heap[source.addr]))
        ELSE [heap |-> copied, value |-> output]

-----------------------------------------------------------------------------
(* Specification of calls to FileSystemUtils.deepMerge                     *)

\* an object literal: its properties in order, each value a primitive, an
\* array or another literal
Literal(props) == [kind |-> "literal", props |-> props]

\* the literals with an optional property under each of the given keys, in
\* the order of the keys
RECURSIVE LiteralsOver(_, _)
LiteralsOver(keys, valuesOf) ==
    IF keys = <<>> THEN {<<>>}
    ELSE LET rest == LiteralsOver(Tail(keys), valuesOf)
         IN  rest \cup {<<[key |-> Head(keys), value |-> v]>> \o r :
                           v \in valuesOf[Head(keys)], r \in rest}

InnerObjects ==
    {Literal(p) : p \in LiteralsOver(<<"a", "b">>,
                                     [a |-> {NumberValue(1), NumberValue(2)},
                                      b |-> {NumberValue(1)}])}

MiddleObjects ==
    {Literal(p) :
        p \in LiteralsOver(<<"a", "b", "__proto__">>,
                           [a |-> {NumberValue(1), NullValue, ArrayValue} \cup InnerObjects,
                            b |-> {NumberValue(2), Undefined},
                            __proto__ |-> {NumberValue(1), NullValue, Literal(<<>>),
                                           Literal(<<[key |-> "a", value |-> NumberValue(1)]>>)}])}

OuterObjects ==
    {Literal(<<[key |-> "a", value |-> m]>>) :
        m \in {o \in MiddleObjects : \A i \in 1..Len(o.props) : o.props[i].key # "__proto__"}}

MergeOperands == MiddleObjects \cup OuterObjects

\* the heap after building the literal, and the address of the object built;
\* JSON.parse defines every key, __proto__ included, as an own property
RECURSIVE build(_, _)
RECURSIVE buildProps(_, _, _)
buildProps(heap, at, props) ==
    IF props = <<>> THEN heap
    ELSE LET p == Head(props)
         IN  IF p.value.kind = "literal"
             THEN LET inner == build(heap, p.value)
                  IN  buildProps([inner.heap EXCEPT ![at].props =
                                     Append(@, [key |-> p.key, value |-> inner.value])],
                                 at, Tail(props))
             ELSE buildProps([heap EXCEPT ![at].props = Append(@, p)], at, Tail(props))

build(heap, literal) ==
    LET at == Len(heap) + 1
    IN  [heap |-> buildProps(Append(heap, [props |-> <<>>, proto |-> ObjectPrototype]),
                             at, literal.props),
         value |-> ObjectAt(at)]

MergeArguments(t, s) ==
    LET target == build(EmptyHeap, t)
        source == IF s = NullValue THEN [heap |-> target.heap, value |-> NullValue]
                  ELSE build(target.heap, s)
    IN  [heap |-> source.heap, target |-> target.value, source |-> source.value]

InitMerge ==
    /\ \E t \in MergeOperands, s \in MergeOperands \cup {NullValue} : args = MergeArguments(t, s)
    /\ ret = Pending
    /\ NoRun

DeepMerge ==
    /\ ret = Pending
    /\ Has(args, "heap")
    /\ ret' = Returned("deepMerge", deepMerge(args.heap, args.target, args.source))
    /\ UNCHANGED <<args, pipelineVars>>

NextMerge == DeepMerge

SpecMerge == InitMerge /\ [][NextMerge]_vars
mergeReturned == ret.fn = "deepMerge"

PropertyKeys == {"a", "b", "__proto__"}

\* the object was created by the call
allocated(value) == isObject(value) /\ value.addr > Len(args.heap)

\* the rule of the merge for the properties the three objects own: result
\* is compared after the call, target and source as they were before it
RECURSIVE mergedAsStated(_, _, _)
mergedAsStated(result, target, source) ==
    LET r == ret.result.heap[result.addr]
        t == args.heap[target.addr]
        s == args.heap[source.addr]
    IN  \A k \in PropertyKeys :
           /\ (hasOwn(s, k) /\ ~isObject(ownValue(s, k)))
              => hasOwn(r, k) /\ ownValue(r, k) = ownValue(s, k)
           /\ (hasOwn(s, k) /\ isObject(ownValue(s, k))
                 /\ hasOwn(t, k) /\ isObject(ownValue(t, k)))
              => /\ hasOwn(r, k) /\ allocated(ownValue(r, k))
                 /\ mergedAsStated(ownValue(r, k), ownValue(t, k), ownValue(s, k))
           /\ (hasOwn(t, k) /\ ~hasOwn(s, k))
              => hasOwn(r, k) /\ ownValue(r, k) = ownValue(t, k)

unmodified == \A a \in 1..Len(args.heap) : ret.result.heap[a] = args.heap[a]

\* C22 as stated: the result holds, for every key of source, the source
\* value when it is not an object and the recursive merge when both values
\* are objects, and target's value for every key of target alone; target
\* and source are not modified.
C22_AsStated ==
    (mergeReturned /\ isObject(args.source))
    => /\ allocated(ret.result.value)
       /\ mergedAsStated(ret.result.value, args.target, args.source)
       /\ unmodified

\* the key __proto__ of source when target does not own it
protoOnly(s, t, k) == k = "__proto__" /\ hasOwn(s, k) /\ ~hasOwn(t, k)

RECURSIVE mergedExceptProto(_, _, _)
mergedExceptProto(result, target, source) ==
    LET r == ret.result.heap[result.addr]
        t == args.heap[target.addr]
        s == args.heap[source.addr]
    IN  /\ \A k \in PropertyKeys :
              ~protoOnly(s, t, k) =>
                 /\ (hasOwn(s, k) /\ ~isObject(ownValue(s, k)))
                    => hasOwn(r, k) /\ ownValue(r, k) = ownValue(s, k)
                 /\ (hasOwn(s, k) /\ isObject(ownValue(s, k))
                       /\ hasOwn(t, k) /\ isObject(ownValue(t, k)))
                    => /\ hasOwn(r, k) /\ allocated(ownValue(r, k))
                       /\ mergedExceptProto(ownValue(r, k), ownValue(t, k), ownValue(s, k))
                 /\ (hasOwn(t, k) /\ ~hasOwn(s, k))
                    => hasOwn(r, k) /\ ownValue(r, k) = ownValue(t, k)
        /\ IF protoOnly(s, t, "__proto__")
           THEN LET v == ownValue(s, "__proto__")
                IN  /\ ~hasOwn(r, "__proto__")
                    /\ CASE isObject(v) ->
                               /\ allocated(r.proto)
                               /\ mergedExceptProto(r.proto, ObjectPrototype, v)
                         [] v.kind \in {"null", "array"} -> r.proto = v
                         [] OTHER -> r.proto = ObjectPrototype
           ELSE r.proto = ObjectPrototype

\* C22 apart from the accessor key: deepMerge(target, source) returns a new
\* object in which, for every
\* key of source other than a __proto__ that target does not own, a
\* non-object source value replaces target's value and two nested objects
\* are merged recursively by the same rule, and every key of target alone
\* keeps target's value; a __proto__ key of source that target does not own
\* is not stored: an object (merged with Object.prototype), null or array
\* value becomes the prototype of the result, any other value is dropped;
\* neither target nor source is modified.
C22_DeepMerge ==
    (mergeReturned /\ isObject(args.source))
    => /\ allocated(ret.result.value)
       /\ mergedExceptProto(ret.result.value, args.target, args.source)
       /\ unmodified

\* {a: {a: 1, b: 1}, b: 2} merged with {a: {a: 2}} gave {a: {a: 2, b: 1}, b: 2}
\* and left the nested object of target as it was
C22_Witness ==
    /\ mergeReturned
    /\ isObject(args.source) /\ Len(args.heap) = 5
    /\ args.heap[args.target.addr].props
          = <<[key |-> "a", value |-> ObjectAt(3)], [key |-> "b", value |-> NumberValue(2)]>>
    /\ args.heap[3].props
          = <<[key |-> "a", value |-> NumberValue(1)], [key |-> "b", value |-> NumberValue(1)]>>
    /\ args.heap[args.source.addr].props = <<[key |-> "a", value |-> ObjectAt(5)]>>
    /\ args.heap[5].props = <<[key |-> "a", value |-> NumberValue(2)]>>
    /\ LET r == ret.result.heap[ret.result.value.addr]
       IN  /\ ownKeys(r) = <<"a", "b">>
           /\ ownValue(r, "b") = NumberValue(2)
           /\ ret.result.heap[ownValue(r, "a").addr].props
                 = <<[key |-> "a", value |-> NumberValue(2)], [key |-> "b", value |-> NumberValue(1)]>>
    /\ ret.result.heap[3] = args.heap[3]
-----------------------------------------------------------------------------
(* Specification of ConfigManager.loadConfig, one search path at a time    *)

ExplicitPath == "my.json"

CandidateFiles ==
    {ExplicitPath, "./appwrite-types.config.json", "./appwrite-types.json",
     "./types-generator.config.json"}

FileKinds == {"absent", "malformed", "null", "illTyped", "valid", "validExtra"}

\* the content of a candidate file of each kind; a valid file names itself
\* in its outputPath
contentOf(kind, path) ==
    CASE kind = "malformed" -> Malformed
      [] kind = "null" -> JNull
      [] kind = "illTyped" -> IllTyped([outputPath |-> "out/" \o path], {"inputPath"})
      [] kind = "valid" -> JObject([outputPath |-> "out/" \o path, generateEnums |-> FALSE])
      [] kind = "validExtra" -> IllTyped([outputPath |-> "out/" \o path, unknownKey |-> TRUE],
                                         {"anotherKey"})

filesOf(kinds) ==
    LET present == {p \in CandidateFiles : kinds[p] # "absent"}
        pathOf(r) == CHOOSE p \in present : resolve(p) = r
    IN  [r \in {resolve(p) : p \in present} |-> contentOf(kinds[pathOf(r)], pathOf(r))]

InitLoad ==
    /\ \E kinds \in [CandidateFiles -> FileKinds],
          configPath \in {None, Some(""), Some(ExplicitPath)} :
          /\ args = [entry |-> "loadConfig", configPath |-> configPath]
          /\ env = EnvOf(filesOf(kinds), TRUE)
    /\ ret = Pending
    /\ pc = "searching"
    /\ cliConfig = None /\ generator = None /\ schema = None
    /\ processableCollections = None /\ generated = None /\ thrown = None /\ outcome = None
    /\ trace = <<>> /\ writes = <<>>

\* one turn of the for loop: the next search path is read, parsed and
\* validated; trace holds the paths tried so far
TryNextPath ==
    /\ pc = "searching"
    /\ Len(trace) < Len(searchPaths(args.configPath))
    /\ \E searchPath \in {searchPaths(args.configPath)[Len(trace) + 1]} :
          /\ trace' = Append(trace, searchPath)
          /\ \E loaded \in {loadFrom(env.files, searchPath)} :
                IF loaded.ok
                THEN ret' = Returned("loadConfig", Ok(loaded.value)) /\ pc' = "done"
                ELSE ret' = ret /\ pc' = pc
    /\ UNCHANGED <<args, env, cliConfig, generator, schema, processableCollections, generated,
                   thrown, outcome, writes>>

\* after the loop: return ConfigSchema.parse({})
ReturnDefaults ==
    /\ pc = "searching"
    /\ Len(trace) = Len(searchPaths(args.configPath))
    /\ ret' = Returned("loadConfig", Ok(ConfigSchema_defaults))
    /\ pc' = "done"
    /\ UNCHANGED <<args, env, cliConfig, generator, schema, processableCollections, generated,
                   thrown, outcome, trace, writes>>

NextLoad == TryNextPath \/ ReturnDefaults

SpecLoad == InitLoad /\ [][NextLoad]_vars

\* the candidate paths in the order the claim gives
Candidates(configPath) ==
    IF configPath = Some(ExplicitPath)
    THEN <<ExplicitPath, "./appwrite-types.config.json", "./appwrite-types.json",
           "./types-generator.config.json">>
    ELSE <<"./appwrite-types.config.json", "./appwrite-types.json",
           "./types-generator.config.json">>

SchemaKeys ==
    {"inputPath", "outputPath", "generateEnums", "generateInterfaces",
     "generateDatabaseConstants", "generateCollectionConstants"}

\* the file can be read, parsed and validated
usable(files, path) ==
    /\ resolve(path) \in DOMAIN files
    /\ files[resolve(path)].json = "object"
    /\ ("illTyped" \in DOMAIN files[resolve(path)]
           => files[resolve(path)].illTyped \cap SchemaKeys = {})

validatedOf(content) ==
    [k \in SchemaKeys |->
        IF k \in DOMAIN content.fields THEN content.fields[k] ELSE ConfigSchema_defaults[k]]

\* C23: loadConfig tries the candidate paths in order, the explicit path
\* first when one is given, and returns the validated configuration of the
\* first candidate that can be read, parsed and validated, without trying a
\* later one; when no candidate succeeds it returns the default
\* configuration and does not fail.
C23_FirstUsableCandidate ==
    ("entry" \in DOMAIN args /\ args.entry = "loadConfig")
    => LET cands == Candidates(args.configPath)
       IN  /\ Len(trace) <= Len(cands)
           /\ \A i \in 1..Len(trace) : trace[i] = cands[i]
           /\ \A i \in 1..(Len(trace) - 1) : ~usable(env.files, trace[i])
           /\ pc = "searching" => \A i \in 1..Len(trace) : ~usable(env.files, trace[i])
           /\ pc = "done" =>
                 /\ ret.result.ok
                 /\ IF \E i \in 1..Len(cands) : usable(env.files, cands[i])
                    THEN /\ trace # <<>>
                         /\ usable(env.files, trace[Len(trace)])
                         /\ ret.result.value
                               = validatedOf(env.files[resolve(trace[Len(trace)])])
                    ELSE /\ trace = cands
                         /\ ret.result.value = ConfigSchema_defaults

\* the explicit path is missing and the first default file is malformed:
\* the second default file is returned and the third, valid too, is not tried
C23_Witness ==
    /\ pc = "done"
    /\ "entry" \in DOMAIN args /\ args.entry = "loadConfig"
    /\ args.configPath = Some(ExplicitPath)
    /\ DOMAIN env.files = {"/cwd/appwrite-types.config.json", "/cwd/appwrite-types.json",
                           "/cwd/types-generator.config.json"}
    /\ env.files["/cwd/types-generator.config.json"].json = "object"
    /\ trace = <<ExplicitPath, "./appwrite-types.config.json", "./appwrite-types.json">>
    /\ ret.result.value.outputPath = "out/./appwrite-types.json"
    /\ ret.result.value.inputPath = "./appwrite.json"
-----------------------------------------------------------------------------
(* Specification of the two names derived from one collection name         *)

CollectionNameAlphabet == {"s", "u", "-", "_"}

CollectionNames == StringsUpTo(CollectionNameAlphabet, MaxNameLen) \cup {"users", "blog_posts"}

NameConfigs ==
    {None} \cup
    {Some(Obj([interfacePrefix |-> p, interfaceSuffix |-> x])) :
        p \in {None, Some(Some("I"))}, x \in {None, Some(Some("Doc"))}}

\* a relationship attribute pointing at the collection
relationTo(collectionName) ==
    [key |-> "author", type |-> "relationship", required |-> FALSE, array |-> FALSE,
     relatedCollection |-> collectionName, relationType |-> "manyToOne", twoWay |-> FALSE,
     side |-> "parent", onDelete |-> "setNull"]

\* the part of the result already computed, if any
partOf(result, part) == IF Has(result, part) THEN result[part] ELSE None

InitNames ==
    /\ \E n \in CollectionNames, c \in NameConfigs : args = [collectionName |-> n, config |-> c]
    /\ ret = Pending
    /\ NoRun

\* the type of a relationship field pointing at the collection
ConvertRelationship ==
    /\ Has(args, "collectionName")
    /\ partOf(ret, "fieldType") = None
    /\ ret' = [fn |-> "names",
               fieldType |-> Some(convertToTSType(relationTo(args.collectionName), None)),
               interfaceName |-> partOf(ret, "interfaceName")]
    /\ UNCHANGED <<args, pipelineVars>>

\* the name under which generateCollectionInterface declares the collection
DeclareInterface ==
    /\ Has(args, "collectionName")
    /\ partOf(ret, "interfaceName") = None
    /\ \E config \in {interfaceFullConfig(args.config)} :
          ret' = [fn |-> "names",
                  fieldType |-> partOf(ret, "fieldType"),
                  interfaceName |-> Some(generateInterfaceName(args.collectionName,
                                                               config.interfacePrefix,
                                                               config.interfaceSuffix))]
    /\ UNCHANGED <<args, pipelineVars>>

NextNames == ConvertRelationship \/ DeclareInterface

SpecNames == InitNames /\ [][NextNames]_vars

\* C24: the type name that convertToTSType derives from relatedCollection
\* is the interface name declared for a collection of that name, prefix and
\* suffix included, so a many-to-one field of the parent side has the type
\* <interface name> | null.
C24_RelatedNameIsDeclared ==
    (ret.fn = "names" /\ ret.fieldType # None /\ ret.interfaceName # None)
    => /\ ret.fieldType[1].ok
       /\ ret.fieldType[1].value = ret.interfaceName[1] \o " | null"
-----------------------------------------------------------------------------
(* Specification of calls to EnumGenerator.generateEnum                    *)

MaxMemberLen == 2

\* the enum values: non-empty strings
MemberValues == StringsUpTo(ValueAlphabet, MaxMemberLen) \ {""}

\* the values of an enum attribute: one value, or two different ones
ElementLists ==
    {<<v>> : v \in MemberValues}
    \cup {p \in {<<v, w>> : v \in MemberValues, w \in MemberValues} : p[1] # p[2]}

InitEnum ==
    /\ \E e \in ElementLists, n \in {None} \cup {Some(s) : s \in NamingStrategies} :
          args = [typeName |-> "UserRole", elements |-> e, namingStrategy |-> n]
    /\ ret = Pending
    /\ NoRun

GenerateEnum ==
    /\ ret = Pending
    /\ Has(args, "typeName")
    /\ ret' = Returned("generateEnum",
                       generateEnum(args.typeName, args.elements, args.namingStrategy))
    /\ UNCHANGED <<args, pipelineVars>>

NextEnum == GenerateEnum

SpecEnum == InitEnum /\ [][NextEnum]_vars

\* a line of an enum body that declares a member: indented by two spaces
\* and not a comment
isMemberLine(line) == Len(line) > 2 /\ SubSeq(line, 1, 2) = "  " /\ charAt(line, 3) # "/"

\* the identifier of a member line: what stands before the first " = "
memberName(line) ==
    LET at == CHOOSE i \in 3..Len(line) :
                  /\ SubSeq(line, i, i + 2) = " = "
                  /\ \A k \in 3..(i - 1) : SubSeq(line, k, k + 2) # " = "
    IN  SubSeq(line, 3, at - 1)

memberNames(text) ==
    LET lines == SelectSeq(splitLines(text), isMemberLine)
    IN  [i \in 1..Len(lines) |-> memberName(lines[i])]

\* C25: in an enum declaration emitted for non-empty enum values, the
\* member identifiers, one per value, are pairwise distinct, non-empty and
\* do not begin with a digit, under each naming strategy.
C25_MemberIdentifiers ==
    ret.fn = "generateEnum"
    => \E names \in {memberNames(ret.result)} :
          /\ Len(names) = Len(args.elements)
          /\ \A i \in 1..Len(names) : names[i] # "" /\ ~IsDigit(charAt(names[i], 1))
          /\ \A i, k \in 1..Len(names) : names[i] = names[k] => i = k
====
